---- MODULE Spec2Model ----
(***************************************************************************)
(* A model of moducrypto.c: the NUMBER helpers, the ECC value objects      *)
(* (Curve, Point, Signature), the Weierstrass group law and ECDSA.         *)
(*                                                                         *)
(* Big integers (fp_int) are TLA+ integers; the fp_* operators model the   *)
(* TomsFastMath calls the source makes.  An ecc_point_t is a record        *)
(* [x, y]; an ecc_curve_t is a record [p, a, b, q, gx, gy, name, oid];     *)
(* a Point object is [x, y, c] with c its own copy of the curve fields.    *)
(***************************************************************************)
EXTENDS Integers, Sequences, FiniteSets, TLC

VARIABLES
    curve,    \* the Curve object the calls are made on
    pts,      \* the Point objects held by the caller, by slot
    sig,      \* the Signature object held by the caller
    last,     \* the last call: its name, its arguments as passed and as left
    ret,      \* what the last call returned
    built,    \* per Point slot: the curve fields when the point was built
    nsteps    \* number of calls made so far

vars == <<curve, pts, sig, last, ret, built, nsteps>>

(***************************************************************************)
(* Bounds of the model.                                                    *)
(***************************************************************************)
MaxScalar == 15      \* point_mul scalars range over -MaxScalar..MaxScalar
MaxDual == 7         \* Shamir's-trick scalars range over 0..MaxDual
MaxKey == 14         \* ECDSA keys and nonces range over -NegKey..MaxKey
NegKey == 3
MaxSteps == 3        \* calls in one run of the object machine
MaxNum == 12         \* invmod arguments range over 0..MaxNum
MaxPow == 8          \* exptmod and fast_pow arguments range over 0..MaxPow
MaxGenBits == 18

\* longest text or bytes value given as an oid
MaxOidLen == 4     \* in-range bit lengths asked of generate_prime: 16..MaxGenBits

(***************************************************************************)
(* Constants of the program.                                               *)
(***************************************************************************)
MinPrimeBits == 16
MaxPrimeBits == 4096

(***************************************************************************)
(* TomsFastMath big-integer layer.                                         *)
(***************************************************************************)
Abs(n) == IF n < 0 THEN -n ELSE n

\* fp_count_bits: number of bits of the magnitude, 0 for zero
RECURSIVE fp_count_bits(_)
fp_count_bits(n) == IF n = 0 THEN 0 ELSE 1 + fp_count_bits(Abs(n) \div 2)

\* fp_tstbit: bit i of the magnitude; an index below zero addresses no bit
fp_tstbit(n, i) == IF i < 0 THEN 0 ELSE (Abs(n) \div (2 ^ i)) % 2

\* fp_mod: c = a mod b, with 0 <= c < b for b > 0
fp_mod(a, b) == a % b

\* fp_2expt: 2^b
fp_2expt(b) == 2 ^ b

\* fp_div: truncating quotient (only used on a non-negative numerator)
fp_div(a, b) == a \div b

\* fp_gcd: non-negative greatest common divisor
RECURSIVE fp_gcd(_, _)
fp_gcd(a, b) == IF b = 0 THEN Abs(a) ELSE fp_gcd(Abs(b), Abs(a) % Abs(b))

\* fp_invmod: [ok, val].  ok = FALSE is FP_VAL (no inverse); the destination
\* is then left as the caller had it, so val is meaningless.
fp_invmod(a, b) ==
    IF b <= 0 \/ fp_gcd(a, b) # 1
    THEN [ok |-> FALSE, val |-> 0]
    ELSE [ok |-> TRUE, val |-> CHOOSE x \in 0..(b - 1) : (a * x) % b = 1 % b]

\* fp_read_radix(str, 16): the digits accumulate high digit first
\* fp_isodd
fp_isodd(n) == Abs(n) % 2 = 1

\* fp_exptmod: a^b mod c, for b >= 0 and c > 0
RECURSIVE fp_exptmod(_, _, _)
fp_exptmod(a, b, c) == IF b = 0 THEN 1 % c ELSE (a * fp_exptmod(a, b - 1, c)) % c

\* fp_sqrmod and fp_mulmod
fp_sqrmod(a, m) == (a * a) % m

fp_mulmod(a, b, m) == (a * b) % m

\* fp_prime_random_ex: what the generator may hand back when asked for a
\* prime of `bits` bits: an error status, or a candidate; the candidates
\* stand for the bit lengths bits - 1, bits and bits + 1
fp_prime_random_ex_outcomes(bits) ==
    { [ok |-> FALSE, val |-> 0] } \cup
    { [ok |-> TRUE, val |-> v] : v \in { 2 ^ (bits - 2) + 1, 2 ^ (bits - 1) + 1,
                                         2 ^ bits - 1, 2 ^ bits + 1 } }

HexDigits == <<"0", "1", "2", "3", "4", "5", "6", "7", "8", "9",
               "a", "b", "c", "d", "e", "f">>

HexValue(ch) == (CHOOSE i \in 1..16 : HexDigits[i] = ch) - 1

RECURSIVE fp_read_radix(_)
fp_read_radix(str) ==
    IF str = <<>> THEN 0
    ELSE 16 * fp_read_radix(SubSeq(str, 1, Len(str) - 1)) + HexValue(str[Len(str)])

(***************************************************************************)
(* Group law.                                                              *)
(***************************************************************************)
Infinity == [x |-> 0, y |-> 0]

IsInfinity(pt) == pt.x = 0 /\ pt.y = 0

ec_point_equal(p1, p2) == p1.x = p2.x /\ p1.y = p2.y

\* ec_point_double with the curve's a left out of lambda
ec_point_double_without_a(op, c) ==
    IF IsInfinity(op) THEN Infinity
    ELSE LET numer == (op.x * op.x) * 3
             inv == fp_invmod(op.y * 2, c.p)
         IN  IF ~inv.ok THEN Infinity
             ELSE LET lambda == fp_mod(numer * inv.val, c.p)
                      rx == fp_mod(lambda * lambda - op.x - op.x, c.p)
                      ry == fp_mod(lambda * (op.x - rx) - op.y, c.p)
                  IN  [x |-> rx, y |-> ry]

ec_point_double(op, c) ==
    IF IsInfinity(op) THEN Infinity
    ELSE LET numer == (op.x * op.x) * 3 + c.a
             inv == fp_invmod(op.y * 2, c.p)
         IN  IF ~inv.ok THEN Infinity
             ELSE LET lambda == fp_mod(numer * inv.val, c.p)
                      rx == fp_mod(lambda * lambda - op.x - op.x, c.p)
                      ry == fp_mod(lambda * (op.x - rx) - op.y, c.p)
                  IN  [x |-> rx, y |-> ry]

\* ec_point_add with the two one-sided identity branches handing back the
\* same operand
ec_point_add_one_sided(op1, op2, c) ==
    IF IsInfinity(op1) \/ IsInfinity(op2) THEN [x |-> op2.x, y |-> op2.y]
    ELSE IF ec_point_equal(op1, op2) THEN ec_point_double(op1, c)
    ELSE LET inv == fp_invmod(op2.x - op1.x, c.p)
             lambda == fp_mod((op2.y - op1.y) * inv.val, c.p)
             rx == fp_mod(lambda * lambda - op1.x - op2.x, c.p)
         IN  [x |-> rx, y |-> fp_mod(lambda * (op1.x - rx) - op1.y, c.p)]

ec_point_add(op1, op2, c) ==
    IF IsInfinity(op1) /\ IsInfinity(op2) THEN Infinity
    ELSE IF IsInfinity(op1) THEN [x |-> op2.x, y |-> op2.y]
    ELSE IF IsInfinity(op2) THEN [x |-> op1.x, y |-> op1.y]
    ELSE IF ec_point_equal(op1, op2) THEN ec_point_double(op1, c)
    ELSE LET negy == c.p - op2.y
         IN  IF op1.x = op2.x /\ op1.y = negy THEN Infinity
             ELSE LET ydiff == op2.y - op1.y
                      xd == op2.x - op1.x
                      inv == fp_invmod(xd, c.p)
                      xdiff == IF inv.ok THEN inv.val ELSE xd
                      lambda == fp_mod(ydiff * xdiff, c.p)
                      rx == fp_mod(lambda * lambda - op1.x - op2.x, c.p)
                      ry == fp_mod(lambda * (op1.x - rx) - op1.y, c.p)
                  IN  [x |-> rx, y |-> ry]

\* the loop of ec_point_mul from bit i down to bit 0
RECURSIVE ec_point_mul_loop(_, _, _, _, _)
\* the loop taking the branch of a clear bit whatever the bit is
ec_point_mul_loop_blind(R0, R1, scalar, i, c) ==
    IF i < 0 THEN R0
    ELSE ec_point_mul_loop(ec_point_double(R0, c), ec_point_add(R0, R1, c),
                           scalar, i - 1, c)

ec_point_mul_loop(R0, R1, scalar, i, c) ==
    IF i < 0 THEN R0
    ELSE IF fp_tstbit(scalar, i) = 1
         THEN ec_point_mul_loop(ec_point_add(R1, R0, c), ec_point_double(R1, c),
                                scalar, i - 1, c)
         ELSE ec_point_mul_loop(ec_point_double(R0, c), ec_point_add(R0, R1, c),
                                scalar, i - 1, c)

\* the operand as ec_point_mul leaves it when it returns: y put back
ec_point_mul_restore(negated, saved_y) == [negated EXCEPT !.y = saved_y]

\* ec_point_mul with the negated y not reduced mod p
ec_point_mul_negation_unreduced(point, scalar, c) ==
    IF IsInfinity(point) THEN [rop |-> Infinity, point |-> point]
    ELSE IF scalar = 2 THEN [rop |-> ec_point_double(point, c), point |-> point]
    ELSE LET negated == IF scalar < 0 THEN [point EXCEPT !.y = -point.y] ELSE point
             k == IF scalar < 0 THEN -scalar ELSE scalar
         IN  [rop |-> ec_point_mul_loop([x |-> negated.x, y |-> negated.y],
                                        ec_point_double(negated, c), k,
                                        fp_count_bits(k) - 2, c),
              point |-> point]

\* ec_point_mul: [rop, point], rop the result and point the operand as the
\* call leaves it (for a negative scalar the operand's y is negated in place
\* for the duration of the call).  The scalar is the callee's own copy.
ec_point_mul(point, scalar, c) ==
    IF IsInfinity(point) THEN [rop |-> Infinity, point |-> point]
    ELSE IF scalar = 2 THEN [rop |-> ec_point_double(point, c), point |-> point]
    ELSE LET scalar_is_negative == scalar < 0
             negated == IF scalar_is_negative
                        THEN [point EXCEPT !.y = fp_mod(-point.y, c.p)]
                        ELSE point
             k == IF scalar_is_negative THEN -scalar ELSE scalar
             R0 == [x |-> negated.x, y |-> negated.y]
             R1 == ec_point_double(negated, c)
             dbits == fp_count_bits(k)
         IN  [rop |-> ec_point_mul_loop(R0, R1, k, dbits - 2, c),
              point |-> IF scalar_is_negative
                        THEN ec_point_mul_restore(negated, point.y)
                        ELSE negated]

\* the calls of ec_point_double that one call of ec_point_add makes
ec_point_add_doubles(op1, op2) ==
    IF ~IsInfinity(op1) /\ ~IsInfinity(op2) /\ ec_point_equal(op1, op2) THEN 1 ELSE 0

\* the loop of ec_point_mul, counted: n is [iters, adds, doubles] so far
RECURSIVE ec_point_mul_loop_calls(_, _, _, _, _, _)
\* the loop adding only for a set bit, counted
ec_point_mul_loop_calls_add_if_set(R0, R1, scalar, i, c, n) ==
    IF i < 0 THEN n
    ELSE IF fp_tstbit(scalar, i) = 1
         THEN ec_point_mul_loop_calls(ec_point_add(R1, R0, c), ec_point_double(R1, c),
                  scalar, i - 1, c,
                  [iters |-> n.iters + 1, adds |-> n.adds + 1,
                   doubles |-> n.doubles + 1 + ec_point_add_doubles(R1, R0)])
         ELSE ec_point_mul_loop_calls(ec_point_double(R0, c), ec_point_add(R0, R1, c),
                  scalar, i - 1, c,
                  [iters |-> n.iters + 1, adds |-> n.adds, doubles |-> n.doubles + 1])

ec_point_mul_loop_calls(R0, R1, scalar, i, c, n) ==
    IF i < 0 THEN n
    ELSE IF fp_tstbit(scalar, i) = 1
         THEN ec_point_mul_loop_calls(ec_point_add(R1, R0, c), ec_point_double(R1, c),
                  scalar, i - 1, c,
                  [iters |-> n.iters + 1, adds |-> n.adds + 1,
                   doubles |-> n.doubles + 1 + ec_point_add_doubles(R1, R0)])
         ELSE ec_point_mul_loop_calls(ec_point_double(R0, c), ec_point_add(R0, R1, c),
                  scalar, i - 1, c,
                  [iters |-> n.iters + 1, adds |-> n.adds + 1,
                   doubles |-> n.doubles + 1 + ec_point_add_doubles(R0, R1)])

\* ec_point_mul, counted: the loop iterations it runs and the calls of
\* ec_point_add and ec_point_double it causes
ec_point_mul_calls(point, scalar, c) ==
    IF IsInfinity(point) THEN [iters |-> 0, adds |-> 0, doubles |-> 0]
    ELSE IF scalar = 2 THEN [iters |-> 0, adds |-> 0, doubles |-> 1]
    ELSE LET negated == IF scalar < 0
                        THEN [point EXCEPT !.y = fp_mod(-point.y, c.p)]
                        ELSE point
             k == IF scalar < 0 THEN -scalar ELSE scalar
         IN  ec_point_mul_loop_calls([x |-> negated.x, y |-> negated.y],
                                     ec_point_double(negated, c), k,
                                     fp_count_bits(k) - 2, c,
                                     [iters |-> 0, adds |-> 0, doubles |-> 1])

\* the loop of ec_point_shamirs_trick from bit l down to bit 0
RECURSIVE shamirs_trick_loop(_, _, _, _, _, _, _, _)
shamirs_trick_loop(rop, sum, point1, scalar1, point2, scalar2, l, c) ==
    IF l < 0 THEN rop
    ELSE LET tmp == ec_point_double(rop, c)
             b1 == fp_tstbit(scalar1, l) = 1
             b2 == fp_tstbit(scalar2, l) = 1
             nxt == IF b1 /\ b2 THEN ec_point_add(tmp, sum, c)
                    ELSE IF b1 THEN ec_point_add(tmp, point1, c)
                    ELSE IF b2 THEN ec_point_add(tmp, point2, c)
                    ELSE tmp
         IN  shamirs_trick_loop(nxt, sum, point1, scalar1, point2, scalar2, l - 1, c)

\* ec_point_shamirs_trick; rop0 is what the caller's result point held
ec_point_shamirs_trick(rop0, point1, scalar1, point2, scalar2, c) ==
    LET sum == ec_point_add(point1, point2, c)
        scalar1Bits == fp_count_bits(scalar1)
        scalar2Bits == fp_count_bits(scalar2)
        l == (IF scalar1Bits > scalar2Bits THEN scalar1Bits ELSE scalar2Bits) - 1
        b1 == fp_tstbit(scalar1, l) = 1
        b2 == fp_tstbit(scalar2, l) = 1
        first == IF b1 /\ b2 THEN sum
                 ELSE IF b1 THEN [x |-> point1.x, y |-> point1.y]
                 ELSE IF b2 THEN [x |-> point2.x, y |-> point2.y]
                 ELSE rop0
    IN  shamirs_trick_loop(first, sum, point1, scalar1, point2, scalar2, l - 1, c)

(***************************************************************************)
(* ECDSA.                                                                  *)
(***************************************************************************)
\* the digest shifted by the excess of the bit length of its value
ecdsa_s_digest_by_value(msg, c) ==
    LET e == fp_read_radix(msg)
        orderBits == fp_count_bits(c.q)
        digestBits == fp_count_bits(e)
    IN  IF digestBits > orderBits
        THEN fp_div(e, fp_2expt(digestBits - orderBits))
        ELSE e

\* ecdsa_s: the digest as an integer, cut to the bit length of the order
ecdsa_s_digest(msg, c) ==
    LET e == fp_read_radix(msg)
        orderBits == fp_count_bits(c.q)
        digestBits == Len(msg) * 4
    IN  IF digestBits > orderBits
        THEN fp_div(e, fp_2expt(digestBits - orderBits))
        ELSE e

\* the digest taken whole, whatever the bit length of the order
ecdsa_v_digest_whole(msg, c) == fp_read_radix(msg)

\* ecdsa_v: the same conversion, written out a second time in the source
ecdsa_v_digest(msg, c) ==
    LET e == fp_read_radix(msg)
        orderBits == fp_count_bits(c.q)
        digestBits == Len(msg) * 4
    IN  IF digestBits > orderBits
        THEN fp_div(e, fp_2expt(digestBits - orderBits))
        ELSE e

\* ecdsa_s with r left as the x coordinate of k*G, not reduced mod q
ecdsa_s_unreduced_r(msg, d, k, c) ==
    LET m == ec_point_mul([x |-> c.gx, y |-> c.gy], k, c)
        r == m.rop.x
        e == ecdsa_s_digest(msg, c)
        inv == fp_invmod(k, c.q)
        kinv == IF inv.ok THEN inv.val ELSE 0
        s == fp_mod((d * r + e) * kinv, c.q)
    IN  [r |-> r, s |-> s, g |-> m.point]

\* ecdsa_s: [r, s, g]; g is the curve's base point as the call leaves it
\* (ec_point_mul is handed &curve->g itself).  kinv is zeroed by fp_init and
\* the status of fp_invmod is not looked at.
ecdsa_s(msg, d, k, c) ==
    LET m == ec_point_mul([x |-> c.gx, y |-> c.gy], k, c)
        r == fp_mod(m.rop.x, c.q)
        e == ecdsa_s_digest(msg, c)
        inv == fp_invmod(k, c.q)
        kinv == IF inv.ok THEN inv.val ELSE 0
        s == fp_mod((d * r + e) * kinv, c.q)
    IN  [r |-> r, s |-> s, g |-> m.point]

\* ecdsa_v: TRUE iff the recomputed x equals sig.r.  w is zeroed by fp_init
\* and the status of fp_invmod is not looked at.
ecdsa_v(sg, msg, Q, c) ==
    LET e == ecdsa_v_digest(msg, c)
        inv == fp_invmod(sg.s, c.q)
        w == IF inv.ok THEN inv.val ELSE 0
        u1 == fp_mod(e * w, c.q)
        u2 == fp_mod(sg.r * w, c.q)
        tmp == ec_point_shamirs_trick(Infinity, [x |-> c.gx, y |-> c.gy], u1, Q, u2, c)
    IN  fp_mod(tmp.x, c.q) = sg.r

(***************************************************************************)
(* Integer marshalling between the host's int and fp_int.                  *)
(***************************************************************************)
\* mpz_as_fp_int: [b, i]; b is the fp_int written and i the host's integer as
\* the call leaves it.  A negative i is made positive in place while its
\* magnitude bytes are taken, and negated back.
mpz_as_fp_int(i) ==
    IF i = 0 THEN [b |-> 0, i |-> i]
    ELSE LET is_neg == i < 0
             mag == IF is_neg THEN Abs(i) ELSE i
         IN  [b |-> IF is_neg THEN -mag ELSE mag,
              i |-> IF is_neg THEN -mag ELSE mag]

\* mp_fp_for_int: the fp_int for a host int
mp_fp_for_int(arg) == mpz_as_fp_int(arg).b

\* fp_int_as_int: [val, b]; val is the int handed to the host and b is the
\* fp_int read, as the call leaves it: fp_abs(b, b) is applied to the
\* argument itself when it is negative and is not undone.
fp_int_as_int(b) ==
    IF b = 0 THEN [val |-> 0, b |-> b]
    ELSE LET is_neg == b < 0
             mag == IF is_neg THEN Abs(b) ELSE b
         IN  [val |-> IF is_neg THEN -mag ELSE mag, b |-> mag]

\* mod_invmod: c is zeroed by fp_init, fp_invmod's status is not looked at
mod_invmod(A_in, B_in) ==
    LET a == mp_fp_for_int(A_in)
        b == mp_fp_for_int(B_in)
        inv == fp_invmod(a, b)
        c == IF inv.ok THEN inv.val ELSE 0
    IN  fp_int_as_int(c).val

\* the loop of fp_pow3 with the odd branch not consuming the exponent bit
\* it multiplies for: e is halved there
RECURSIVE fp_pow3_loop(_, _, _, _)
fp_pow3_loop_halving(x, e, y, M) ==
    IF ~(e > 0) THEN y
    ELSE IF e % 2 = 0 THEN fp_pow3_loop(fp_sqrmod(x, M), e \div 2, y, M)
    ELSE fp_pow3_loop(x, e \div 2, fp_mulmod(x, y, M), M)

\* the loop of fp_pow3
fp_pow3_loop(x, e, y, M) ==
    IF ~(e > 0) THEN y
    ELSE IF e % 2 = 0 THEN fp_pow3_loop(fp_sqrmod(x, M), e \div 2, y, M)
    ELSE fp_pow3_loop(x, e - 1, fp_mulmod(x, y, M), M)

\* one iteration of the loop of fp_pow3, e > 0: [x, e, y]
fp_pow3_iter(x, e, y, M) ==
    IF e % 2 = 0 THEN [x |-> fp_sqrmod(x, M), e |-> e \div 2, y |-> y]
    ELSE [x |-> x, e |-> e - 1, y |-> fp_mulmod(x, y, M)]

\* fp_pow3: x = X, e = E, y = 1, then the loop
fp_pow3(X, E, M) == fp_pow3_loop(X, E, 1, M)

mod_fast_pow(A_in, B_in, C_in) ==
    fp_int_as_int(fp_pow3(mp_fp_for_int(A_in), mp_fp_for_int(B_in),
                          mp_fp_for_int(C_in))).val

\* mod_exptmod with the fallback taken whatever safe is
mod_exptmod_always_safe(A_in, B_in, C_in, safe) ==
    [raised |-> FALSE, val |-> mod_fast_pow(A_in, B_in, C_in)]

\* mod_exptmod: [raised, val]; raised is the ValueError for an even modulus
mod_exptmod(A_in, B_in, C_in, safe) ==
    LET a == mp_fp_for_int(A_in)
        b == mp_fp_for_int(B_in)
        c == mp_fp_for_int(C_in)
    IN  IF fp_isodd(c)
        THEN [raised |-> FALSE, val |-> fp_int_as_int(fp_exptmod(a, b, c)).val]
        ELSE IF safe
             THEN [raised |-> FALSE, val |-> fp_int_as_int(fp_pow3(a, b, c)).val]
             ELSE [raised |-> TRUE, val |-> 0]

\* mod_generate_prime with the lower limit one too low
mod_generate_prime_low_limit(num, safe, outcome) ==
    IF num < MinPrimeBits - 1 \/ num > MaxPrimeBits
    THEN [raised |-> TRUE, val |-> 0, draws |-> 0, generated |-> FALSE]
    ELSE IF outcome.ok /\ fp_count_bits(outcome.val) = num
         THEN [raised |-> FALSE, val |-> outcome.val, draws |-> 1, generated |-> TRUE]
         ELSE [raised |-> TRUE, val |-> 0, draws |-> 1, generated |-> TRUE]

\* mod_generate_prime: [raised, val, draws, generated]; draws counts the
\* FP_GEN_RANDOM() of the call itself, generated says fp_prime_random_ex ran;
\* outcome is what fp_prime_random_ex hands back
mod_generate_prime(num, safe, outcome) ==
    IF num < MinPrimeBits \/ num > MaxPrimeBits
    THEN [raised |-> TRUE, val |-> 0, draws |-> 0, generated |-> FALSE]
    ELSE IF outcome.ok
         THEN IF fp_count_bits(outcome.val) # num
              THEN [raised |-> TRUE, val |-> 0, draws |-> 1, generated |-> TRUE]
              ELSE [raised |-> FALSE, val |-> fp_int_as_int(outcome.val).val,
                    draws |-> 1, generated |-> TRUE]
         ELSE [raised |-> TRUE, val |-> 0, draws |-> 1, generated |-> TRUE]

(***************************************************************************)
(* The objects.                                                            *)
(***************************************************************************)
IntFields == {"p", "a", "b", "q", "gx", "gy"}

\* the six integer fields of an ecc_curve_t
Params(c) == [p |-> c.p, a |-> c.a, b |-> c.b, q |-> c.q, gx |-> c.gx, gy |-> c.gy]

NoCurve == [p |-> 0, a |-> 0, b |-> 0, q |-> 0, gx |-> 0, gy |-> 0,
            name |-> "", oid |-> <<>>]

NoPoint == [live |-> FALSE, x |-> 0, y |-> 0, c |-> NoCurve]

NoSig == [live |-> FALSE, r |-> 0, s |-> 0]

\* the ecc_point_t inside a Point object
PointOf(pt) == [x |-> pt.x, y |-> pt.y]

\* new_point_init_copy: a Point with a copy of every curve field, at the
\* curve's base point
new_point_init_copy(c) ==
    [live |-> TRUE, x |-> c.gx, y |-> c.gy,
     c |-> [p |-> c.p, a |-> c.a, b |-> c.b, q |-> c.q, gx |-> c.gx, gy |-> c.gy,
            name |-> c.name, oid |-> c.oid]]

\* new_curve_init_copy: a Curve with a copy of the fields a Point holds
new_curve_init_copy(pt) ==
    [p |-> pt.c.p, a |-> pt.c.a, b |-> pt.c.b, q |-> pt.c.q,
     gx |-> pt.c.gx, gy |-> pt.c.gy, name |-> pt.c.name, oid |-> pt.c.oid]

\* Point(x, y, curve) with the copy of q left out
point_without_q(x, y, c) ==
    [live |-> TRUE, x |-> mp_fp_for_int(x), y |-> mp_fp_for_int(y),
     c |-> [p |-> c.p, a |-> c.a, b |-> c.b, q |-> 0, gx |-> c.gx, gy |-> c.gy,
            name |-> c.name, oid |-> c.oid]]

\* point: Point(x, y, curve)
point(x, y, c) ==
    [live |-> TRUE, x |-> mp_fp_for_int(x), y |-> mp_fp_for_int(y),
     c |-> [p |-> c.p, a |-> c.a, b |-> c.b, q |-> c.q, gx |-> c.gx, gy |-> c.gy,
            name |-> c.name, oid |-> c.oid]]

\* signature: Signature(r, s)
signature(r, s) == [live |-> TRUE, r |-> mp_fp_for_int(r), s |-> mp_fp_for_int(s)]

\* a result Point: new_point_init_copy(curve), then x and y written
ResultPoint(c, xy) == [new_point_init_copy(c) EXCEPT !.x = xy.x, !.y = xy.y]

(***************************************************************************)
(* The calls of the ECC namespace, on the caller's objects.  pts is the    *)
(* caller's Point objects by slot, so that one object can be passed twice. *)
(* Each returns the value handed back and the objects as the call leaves   *)
(* them.                                                                   *)
(***************************************************************************)
point_double(h, i, c) ==
    [pr |-> ResultPoint(c, ec_point_double(PointOf(h[i]), c)), pts |-> h]

point_add(h, i, j, c) ==
    [pr |-> ResultPoint(c, ec_point_add(PointOf(h[i]), PointOf(h[j]), c)), pts |-> h]

\* point2's y left as negated
point_sub_no_restore(h, j, saved_y) == h

\* point2's y as point_sub leaves it: the saved copy is put back
point_sub_restore(h, j, saved_y) == [h EXCEPT ![j].y = saved_y]

\* point_sub: point2.y is negated in place, the sum taken, point2.y put back
point_sub(h, i, j, c) ==
    LET saved == h[j].y
        h1 == [h EXCEPT ![j].y = fp_mod(-h[j].y, c.p)]
        pr == ResultPoint(c, ec_point_add(PointOf(h1[i]), PointOf(h1[j]), c))
    IN  [pr |-> pr, pts |-> point_sub_restore(h1, j, saved)]

\* point_mul: the scalar is converted into a local fp_int, handed over by value
point_mul(h, i, scalar, c) ==
    LET conv == mpz_as_fp_int(scalar)
        m == ec_point_mul(PointOf(h[i]), conv.b, c)
    IN  [pr |-> ResultPoint(c, m.rop),
         pts |-> [h EXCEPT ![i].x = m.point.x, ![i].y = m.point.y],
         scalar |-> conv.i,
         calls |-> ec_point_mul_calls(PointOf(h[i]), conv.b, c)]

\* ecdsa_sign: [sg, curve, d, k]
ecdsa_sign(msg, d, k, c) ==
    LET dconv == mpz_as_fp_int(d)
        kconv == mpz_as_fp_int(k)
        r == ecdsa_s(msg, dconv.b, kconv.b, c)
    IN  [sg |-> [live |-> TRUE, r |-> r.r, s |-> r.s],
         curve |-> [c EXCEPT !.gx = r.g.x, !.gy = r.g.y],
         d |-> dconv.i, k |-> kconv.i]

ecdsa_verify(sg, msg, Q, c) == ecdsa_v([r |-> sg.r, s |-> sg.s], msg, PointOf(Q), c)

(***************************************************************************)
(* Attribute access.                                                       *)
(***************************************************************************)
\* curve_attr, load of an integer field: [val, curve]
curve_attr_load(c, attr) ==
    LET r == fp_int_as_int(c[attr])
    IN  [val |-> r.val, curve |-> [c EXCEPT ![attr] = r.b]]

\* curve_attr, store of an integer field
curve_attr_store(c, attr, v) == [c EXCEPT ![attr] = mp_fp_for_int(v)]

\* curve_attr, store of G from a Point
curve_attr_store_G(c, other) ==
    [c EXCEPT !.p = other.c.p, !.a = other.c.a, !.b = other.c.b, !.q = other.c.q,
              !.gx = other.x, !.gy = other.y]

\* point_attr, load of x or y: [val, pt]
point_attr_load(pt, attr) ==
    LET r == fp_int_as_int(pt[attr])
    IN  [val |-> r.val, pt |-> [pt EXCEPT ![attr] = r.b]]

\* point_attr, store of x or y
point_attr_store(pt, attr, v) == [pt EXCEPT ![attr] = mp_fp_for_int(v)]

\* point_attr, store of curve
point_attr_store_curve(pt, other) ==
    [pt EXCEPT !.c = [p |-> other.p, a |-> other.a, b |-> other.b, q |-> other.q,
                      gx |-> other.gx, gy |-> other.gy,
                      name |-> other.name, oid |-> other.oid]]

\* signature_attr, load of r or s: [val, sg]
signature_attr_load(sg, attr) ==
    LET r == fp_int_as_int(sg[attr])
    IN  [val |-> r.val, sg |-> [sg EXCEPT ![attr] = r.b]]

\* ec_point_in_curve: (y^2 - (x^3 + a*x + b)) mod p == 0
ec_point_in_curve(pt, c) ==
    LET left == pt.y * pt.y
        right == (pt.x * pt.x) * pt.x + c.a * pt.x + c.b
    IN  fp_mod(left - right, c.p) = 0

(***************************************************************************)
(* The operators of the three types.  An operand is an object of any kind; *)
(* a Point operand is named by its slot.  Where the source casts an        *)
(* operand without having checked its type, what is then read through the  *)
(* cast is whatever lies at that address: the argument `garbage`.  A small *)
(* int is no address at all: it is the number itself in a tagged word, and *)
(* the read through it is a memory fault that ends the process.  An int    *)
(* held as a heap object (mp_obj_int_t, what fp_int_as_int hands back) is  *)
(* an address like that of any other object, and is misread like one.      *)
(***************************************************************************)
NoObj == [kind |-> "none", slot |-> 0, cv |-> NoCurve, sg |-> NoSig, n |-> 0]

PointObj(j) == [NoObj EXCEPT !.kind = "point", !.slot = j]

CurveObj(cv) == [NoObj EXCEPT !.kind = "curve", !.cv = cv]

SigObj(sg) == [NoObj EXCEPT !.kind = "signature", !.sg = sg]

\* a small int: the value in a tagged word
IntObj(n) == [NoObj EXCEPT !.kind = "int", !.n = n]

\* an int held as a heap object
MpzObj(n) == [NoObj EXCEPT !.kind = "mpz", !.n = n]

MP_OBJ_IS_INT(o) == o.kind \in {"int", "mpz"}

\* ec_curve_equal with the comparison of g.y left out
ec_curve_equal_without_gy(c1, c2) ==
    c1.p = c2.p /\ c1.a = c2.a /\ c1.b = c2.b /\ c1.q = c2.q /\ c1.gx = c2.gx

ec_curve_equal(c1, c2) ==
    /\ c1.p = c2.p /\ c1.a = c2.a /\ c1.b = c2.b /\ c1.q = c2.q
    /\ c1.gx = c2.gx /\ c1.gy = c2.gy

ec_signature_equal(s1, s2) == s1.r = s2.r /\ s1.s = s2.s

\* what an operator hands back: err is "" or the exception raised, misread
\* says an operand was read through a cast to a type it does not have
OpResult(err, kind, b, pr, h, misread) ==
    [err |-> err, kind |-> kind, b |-> b, pr |-> pr, pts |-> h, misread |-> misread]

\* MP_OBJ_TO_PTR(rhs) of a small int, then a read of a field through it: the
\* process dies of SIGSEGV, nothing is handed back and no object has changed
OpFault(h) == OpResult("SIGSEGV", "crash", FALSE, NoPoint, h, TRUE)

\* curve_equal: type checks, then ec_curve_equal
curve_equal(c1, rhs, h) ==
    IF rhs.kind # "curve" THEN OpResult("TypeError", "error", FALSE, NoPoint, h, FALSE)
    ELSE OpResult("", "bool", ec_curve_equal(c1, rhs.cv), NoPoint, h, FALSE)

\* curve_binary_op; the left operand is the Curve the operator belongs to
curve_binary_op(op, c, rhs, h) ==
    IF op = "==" THEN curve_equal(c, rhs, h)
    ELSE \* "in"
         IF rhs.kind # "point" THEN OpResult("TypeError", "error", FALSE, NoPoint, h, FALSE)
         ELSE OpResult("", "bool", ec_point_in_curve(PointOf(h[rhs.slot]), c),
                       NoPoint, h, FALSE)

\* signature_binary_op; the left operand is a Signature, so the one check
\* (neither operand is a Signature) never raises
signature_binary_op(op, sg, rhs, garbage) ==
    LET r == IF rhs.kind = "signature" THEN rhs.sg ELSE garbage
    IN  IF rhs.kind = "int"
        THEN [err |-> "SIGSEGV", kind |-> "crash", b |-> FALSE, misread |-> TRUE]
        ELSE [err |-> "", kind |-> "bool", b |-> ec_signature_equal(sg, r),
              misread |-> rhs.kind # "signature"]

\* point_binary_op for +, -, * and ==; the left operand is the Point in slot
\* i, so the one check of +, - and == (neither operand is a Point) never
\* raises.  point_add, point_sub and point_equal check the types of their
\* arguments themselves.  * checks that the right operand is an int and is
\* point_mul on a copy of the left operand's curve.
point_binary_op(op, h, i, rhs, garbage) ==
    LET l == h[i]
        is_point == rhs.kind = "point"
        r == IF is_point THEN h[rhs.slot] ELSE garbage
    IN  IF op = "*"
        THEN IF ~MP_OBJ_IS_INT(rhs)
             THEN OpResult("TypeError", "error", FALSE, NoPoint, h, FALSE)
             ELSE LET res == point_mul(h, i, rhs.n, new_curve_init_copy(l))
                  IN  OpResult("", "point", FALSE, res.pr, res.pts, FALSE)
        ELSE IF rhs.kind = "int"
        THEN OpFault(h)
        ELSE IF ~ec_curve_equal(l.c, r.c)
        THEN OpResult("ValueError", "error", FALSE, NoPoint, h, ~is_point)
        ELSE IF ~is_point
        THEN OpResult("TypeError", "error", FALSE, NoPoint, h, TRUE)
        ELSE IF op = "+"
        THEN LET res == point_add(h, i, rhs.slot, new_curve_init_copy(l))
             IN  OpResult("", "point", FALSE, res.pr, res.pts, FALSE)
        ELSE IF op = "-"
        THEN LET res == point_sub(h, i, rhs.slot, new_curve_init_copy(l))
             IN  OpResult("", "point", FALSE, res.pr, res.pts, FALSE)
        ELSE OpResult("", "bool", ec_point_equal(PointOf(l), PointOf(r)),
                      NoPoint, h, FALSE)

\* point_in_curve with the Point's own curve snapshot in place of the curve
point_in_curve_own_snapshot(h, i, c) ==
    [b |-> ec_point_in_curve(PointOf(h[i]), new_curve_init_copy(h[i])), pts |-> h,
     curve |-> c]

\* point_in_curve(point, curve): [b, pts, curve]
point_in_curve(h, i, c) ==
    [b |-> ec_point_in_curve(PointOf(h[i]), c), pts |-> h, curve |-> c]

\* (mp_curve_t *)point: the Point object read with the layout of a Curve.
\* Both begin with the object header; the six integers that follow it in a
\* Point are x, y, p, a, b, q, and a Curve has p, a, b, q, g.x, g.y there.
\* name and oid are then read out of the digits of the Point's gx and gy:
\* the argument `garbage`.
point_cast_to_curve(pt, garbage) ==
    [p |-> pt.x, a |-> pt.y, b |-> pt.c.p, q |-> pt.c.a, gx |-> pt.c.b, gy |-> pt.c.q,
     name |-> garbage.name, oid |-> garbage.oid]

\* point_unary_op, negation: [pr, pts].  y is negated in the caller's
\* object, the result is new_point_init_copy of the object cast to a
\* Curve, and y is put back.
point_unary_op(h, i, garbage) ==
    LET saved == h[i].y
        h1 == [h EXCEPT ![i].y = fp_mod(-h[i].y, h[i].c.p)]
        pr == new_point_init_copy(point_cast_to_curve(h1[i], garbage))
    IN  [pr |-> pr, pts |-> [h1 EXCEPT ![i].y = saved]]

(***************************************************************************)
(* Text and bytes values, and the decoding of a hex oid.  A character is   *)
(* its code; a bytes value and a vstr buffer are sequences of 0..255.      *)
(***************************************************************************)
NoVal == [kind |-> "none", n |-> 0, data |-> <<>>]

StrVal(data) == [NoVal EXCEPT !.kind = "str", !.data = data]

BytesVal(data) == [NoVal EXCEPT !.kind = "bytes", !.data = data]

IntVal(n) == [NoVal EXCEPT !.kind = "int", !.n = n]

\* '0'..'9', 'A'..'F', 'a'..'f'
unichar_isxdigit(ch) == ch \in (48..57) \cup (65..70) \cup (97..102)

\* the value of a character assumed to be a hex digit
unichar_xdigit_value(ch) ==
    LET n == ch - 48
        folded == IF (n \div 32) % 2 = 1 THEN n - 32 ELSE n
    IN  IF n > 9 THEN folded - 7 ELSE n

\* the loop of vstr_unhexlify over characters k..Len(in), i counting down
RECURSIVE vstr_unhexlify_loop(_, _, _, _)
vstr_unhexlify_loop(in, k, hex_byte, out) ==
    IF k > Len(in) THEN [raised |-> FALSE, out |-> out]
    ELSE LET hex_ch == in[k]
             i == Len(in) - k
             hb == (hex_byte + unichar_xdigit_value(hex_ch)) % 256
         IN  IF ~unichar_isxdigit(hex_ch) THEN [raised |-> TRUE, out |-> out]
             ELSE IF i % 2 = 1
             THEN vstr_unhexlify_loop(in, k + 1, (hb * 16) % 256, out)
             ELSE vstr_unhexlify_loop(in, k + 1, 0, Append(out, hb))

\* vstr_unhexlify after its length check: the buffer is set up anew with
\* in_len / 2 bytes, whose content before the loop writes them is `fill`
vstr_unhexlify_body(in, fill) ==
    LET n == Len(in) \div 2
        r == vstr_unhexlify_loop(in, 1, 0, <<>>)
    IN  [err |-> IF r.raised THEN "ValueError" ELSE "",
         out |-> r.out \o [j \in 1..(n - Len(r.out)) |-> fill]]

\* vstr_unhexlify without the check of the length
vstr_unhexlify_unchecked(out0, in, fill) == vstr_unhexlify_body(in, fill)

\* vstr_unhexlify(vstr_out, in, in_len): [err, out], out the buffer after
vstr_unhexlify(out0, in, fill) ==
    IF Len(in) % 2 # 0 THEN [err |-> "ValueError", out |-> out0]
    ELSE vstr_unhexlify_body(in, fill)

\* curve(...), the oid argument: [err, oid] of the curve under construction
curve_oid_arg(val, fill) ==
    IF val.kind = "none" THEN [err |-> "", oid |-> <<>>]
    ELSE IF val.kind \notin {"str", "bytes"} THEN [err |-> "TypeError", oid |-> <<>>]
    ELSE IF val.kind = "bytes" THEN [err |-> "", oid |-> val.data]
    ELSE LET r == vstr_unhexlify(<<>>, val.data, fill)
         IN  [err |-> r.err, oid |-> r.out]

\* curve_attr, store of any value to any field: [err, curve]
curve_attr_store_obj(c, attr, val, fill) ==
    IF attr \in IntFields /\ val.kind # "int" THEN [err |-> "TypeError", curve |-> c]
    ELSE IF attr = "G" THEN [err |-> "TypeError", curve |-> c]
    ELSE IF attr \in {"name", "oid"} /\ val.kind \notin {"str", "bytes"}
    THEN [err |-> "TypeError", curve |-> c]
    ELSE IF attr \in IntFields
    THEN [err |-> "", curve |-> curve_attr_store(c, attr, val.n)]
    ELSE IF attr = "name" THEN [err |-> "", curve |-> [c EXCEPT !.name = val.data]]
    ELSE IF val.kind = "bytes" THEN [err |-> "", curve |-> [c EXCEPT !.oid = val.data]]
    ELSE LET r == vstr_unhexlify(c.oid, val.data, fill)
         IN  [err |-> r.err, curve |-> [c EXCEPT !.oid = r.out]]

\* curve: Curve(p, a, b, q, gx, gy, name=...), oid left empty
Curve(p, a, b, q, gx, gy, name) ==
    [p |-> mp_fp_for_int(p), a |-> mp_fp_for_int(a), b |-> mp_fp_for_int(b),
     q |-> mp_fp_for_int(q), gx |-> mp_fp_for_int(gx), gy |-> mp_fp_for_int(gy),
     name |-> name, oid |-> <<>>]

(***************************************************************************)
(* Inputs.                                                                 *)
(***************************************************************************)
Slots == {1, 2}

\* y^2 = x^3 - 3x + 10 over GF(11), 7 points; x^3 + x + 6 over GF(11), 13
\* points; x^3 - 3x + 4 over GF(7), 10 points with a base point of order 5
SignCurves ==
    { Curve(11, -3, 10, 7, 2, 1, "c1"),
      Curve(11, 1, 6, 13, 2, 4, "c2"),
      Curve(7, -3, 4, 5, 1, 3, "c3") }

\* the same curves, each also with a second base point of the same order
ECCurves ==
    SignCurves \cup
    { Curve(11, -3, 10, 7, 8, 5, "c1"),
      Curve(11, 1, 6, 13, 7, 9, "c2"),
      Curve(7, -3, 4, 5, 5, 4, "c3") }

\* the points of a curve with coordinates in [0, p), and the (0, 0) sentinel
CurvePoints(c) ==
    { pt \in [x : 0..(c.p - 1), y : 0..(c.p - 1)] : ec_point_in_curve(pt, c) }
    \cup {Infinity}

Scalars == (-MaxScalar)..MaxScalar

DualScalars == 0..MaxDual

Keys == (-NegKey)..MaxKey

DigestChars == {"0", "1", "6", "9", "c", "f"}

\* digests of one and of two hex digits
Digests ==
    { <<a>> : a \in DigestChars } \cup
    { <<a, b>> : a \in DigestChars, b \in DigestChars }

(***************************************************************************)
(* State.                                                                  *)
(***************************************************************************)
NoCall == [op |-> "init", attr |-> "", i |-> 0, j |-> 0, k |-> 0, k2 |-> 0,
           d |-> 0, nonce |-> 0, msg |-> <<>>, kpost |-> 0, dpost |-> 0,
           m |-> 0, safe |-> FALSE, draws |-> 0, generated |-> FALSE,
           cand |-> 0, candok |-> FALSE, rkind |-> "", misread |-> FALSE,
           val |-> NoVal, before |-> NoCurve, iters |-> 0, adds |-> 0,
           doubles |-> 0, x |-> 0, e |-> 0, y |-> 0]

NoRet == [kind |-> "none", n |-> 0, b |-> FALSE, pt |-> NoPoint, cv |-> NoCurve,
          err |-> ""]

IntRet(n) == [NoRet EXCEPT !.kind = "int", !.n = n]

BoolRet(b) == [NoRet EXCEPT !.kind = "bool", !.b = b]

PointRet(pt) == [NoRet EXCEPT !.kind = "point", !.pt = pt]

SigRet == [NoRet EXCEPT !.kind = "signature"]

CurveRet(cv) == [NoRet EXCEPT !.kind = "curve", !.cv = cv]

\* the call raised: nothing is handed back
ErrRet(e) == [NoRet EXCEPT !.kind = "error", !.err = e]

\* the call ended the process with a memory fault
CrashRet == [NoRet EXCEPT !.kind = "crash", !.err = "SIGSEGV"]

(***************************************************************************)
(* Group-law calls on two Point objects of one curve.                      *)
(***************************************************************************)
InitEC ==
    /\ curve \in ECCurves
    /\ pts \in [Slots -> { point(pt.x, pt.y, curve) : pt \in CurvePoints(curve) }]
    /\ built = [i \in Slots |-> Params(curve)]
    /\ sig = NoSig
    /\ last = NoCall
    /\ ret = NoRet
    /\ nsteps = 0

\* point_double; the result is bound to slot dst when dst is a slot
PointDouble(i, dst) ==
    LET r == point_double(pts, i, curve)
    IN  /\ pts[i].live
        /\ pts' = IF dst \in Slots THEN [r.pts EXCEPT ![dst] = r.pr] ELSE r.pts
        /\ built' = IF dst \in Slots THEN [built EXCEPT ![dst] = Params(curve)]
                    ELSE built
        /\ ret' = PointRet(r.pr)
        /\ last' = [NoCall EXCEPT !.op = "point_double", !.i = i, !.j = dst]
        /\ nsteps' = nsteps + 1
        /\ UNCHANGED <<curve, sig>>

PointAdd(i, j) ==
    LET r == point_add(pts, i, j, curve)
    IN  /\ pts' = r.pts
        /\ ret' = PointRet(r.pr)
        /\ last' = [NoCall EXCEPT !.op = "point_add", !.i = i, !.j = j]
        /\ nsteps' = nsteps + 1
        /\ UNCHANGED <<curve, sig, built>>

PointSub(i, j) ==
    LET r == point_sub(pts, i, j, curve)
    IN  /\ pts' = r.pts
        /\ ret' = PointRet(r.pr)
        /\ last' = [NoCall EXCEPT !.op = "point_sub", !.i = i, !.j = j]
        /\ nsteps' = nsteps + 1
        /\ UNCHANGED <<curve, sig, built>>

\* point_mul; the result is bound to slot dst when dst is a slot.  The
\* fields of last that the call does not set keep what the caller holds.
PointMul(i, k, dst) ==
    LET r == point_mul(pts, i, k, curve)
    IN  /\ pts' = IF dst \in Slots THEN [r.pts EXCEPT ![dst] = r.pr] ELSE r.pts
        /\ built' = IF dst \in Slots THEN [built EXCEPT ![dst] = Params(curve)]
                    ELSE built
        /\ ret' = PointRet(r.pr)
        /\ last' = [last EXCEPT !.op = "point_mul", !.i = i, !.j = dst, !.k = k,
                                !.kpost = r.scalar, !.iters = r.calls.iters,
                                !.adds = r.calls.adds, !.doubles = r.calls.doubles]
        /\ nsteps' = nsteps + 1
        /\ UNCHANGED <<curve, sig>>

\* ec_point_shamirs_trick on the two points, into a zeroed result point
ShamirsTrick(k1, k2) ==
    LET r == ec_point_shamirs_trick(Infinity, PointOf(pts[1]), k1,
                                    PointOf(pts[2]), k2, curve)
    IN  /\ ret' = PointRet(ResultPoint(curve, r))
        /\ last' = [NoCall EXCEPT !.op = "shamirs_trick", !.i = 1, !.j = 2,
                                  !.k = k1, !.k2 = k2]
        /\ nsteps' = nsteps + 1
        /\ UNCHANGED <<curve, pts, sig, built>>

NextEC ==
    /\ nsteps = 0
    /\ \/ \E i \in Slots : PointDouble(i, 0)
       \/ \E i \in Slots, j \in Slots : PointAdd(i, j)
       \/ \E i \in Slots, j \in Slots : PointSub(i, j)
       \/ \E k \in Scalars : PointMul(1, k, 0)
       \/ \E k1 \in DualScalars, k2 \in DualScalars : ShamirsTrick(k1, k2)

SpecEC == InitEC /\ [][NextEC]_vars

(***************************************************************************)
(* ECDSA calls.                                                            *)
(***************************************************************************)
\* the curve exists and the caller has read curve.G twice
InitECDSA ==
    /\ curve \in SignCurves
    /\ pts = [i \in Slots |-> new_point_init_copy(curve)]
    /\ built = [i \in Slots |-> Params(curve)]
    /\ sig = NoSig
    /\ last = NoCall
    /\ ret = NoRet
    /\ nsteps = 0

EcdsaSign(msg, d, k) ==
    LET r == ecdsa_sign(msg, d, k, curve)
    IN  /\ sig' = r.sg
        /\ curve' = r.curve
        /\ ret' = SigRet
        /\ last' = [NoCall EXCEPT !.op = "ecdsa_sign", !.msg = msg, !.d = d, !.nonce = k,
                                  !.dpost = r.d, !.kpost = r.k]
        /\ nsteps' = nsteps + 1
        /\ UNCHANGED <<pts, built>>

SignatureNew(r, s) ==
    /\ sig' = signature(r, s)
    /\ ret' = SigRet
    /\ last' = [NoCall EXCEPT !.op = "signature"]
    /\ nsteps' = nsteps + 1
    /\ UNCHANGED <<curve, pts, built>>

\* ecdsa_verify of the caller's Signature against the Point in slot i
EcdsaVerify(msg, i) ==
    /\ sig.live
    /\ ret' = BoolRet(ecdsa_verify(sig, msg, pts[i], curve))
    /\ last' = [last EXCEPT !.op = "ecdsa_verify", !.msg = msg, !.i = i]
    /\ nsteps' = nsteps + 1
    /\ UNCHANGED <<curve, pts, sig, built>>

\* sign; or sign, derive the public key d*G into slot 2, verify against it;
\* or build any Signature and verify it against G
NextECDSA ==
    \/ /\ nsteps = 0
       /\ \E msg \in Digests, d \in Keys, k \in Keys : EcdsaSign(msg, d, k)
    \/ /\ last.op = "ecdsa_sign"
       /\ PointMul(1, last.d, 2)
    \/ /\ last.op = "point_mul"
       /\ EcdsaVerify(last.msg, 2)
    \/ /\ nsteps = 0
       /\ \E r \in 0..curve.q, s \in 0..curve.q : SignatureNew(r, s)
    \/ /\ last.op = "signature"
       /\ \E msg \in Digests : EcdsaVerify(msg, 1)

SpecECDSA == InitECDSA /\ [][NextECDSA]_vars

(***************************************************************************)
(* point_add and point_double on Points whose coordinates were given       *)
(* inside or outside [0, p).                                               *)
(***************************************************************************)
\* the points of c, each also with y - p, y + p or x + p for a coordinate
RawPoints(c) ==
    CurvePoints(c) \cup
    UNION { { [x |-> pt.x, y |-> pt.y - c.p], [x |-> pt.x, y |-> pt.y + c.p],
              [x |-> pt.x + c.p, y |-> pt.y] } : pt \in CurvePoints(c) \ {Infinity} }

InitRaw ==
    /\ curve \in SignCurves
    /\ pts \in [Slots -> { point(pt.x, pt.y, curve) : pt \in RawPoints(curve) }]
    /\ built = [i \in Slots |-> Params(curve)]
    /\ sig = NoSig
    /\ last = NoCall
    /\ ret = NoRet
    /\ nsteps = 0

NextRaw ==
    /\ nsteps = 0
    /\ \/ \E i \in Slots : PointDouble(i, 0)
       \/ \E i \in Slots, j \in Slots : PointAdd(i, j)

SpecRaw == InitRaw /\ [][NextRaw]_vars

(***************************************************************************)
(* The calls that negate an operand in place while they run.               *)
(***************************************************************************)
NegScalars == (-MaxScalar)..(-1)

NegKeys == (-NegKey)..(-1)

NextFrame ==
    /\ nsteps = 0
    /\ \/ \E i \in Slots, j \in Slots : PointSub(i, j)
       \/ \E i \in Slots, k \in NegScalars : PointMul(i, k, 0)
       \/ \E msg \in {<<"6">>, <<"c", "9">>}, d \in {-2, 3}, k \in NegKeys :
              EcdsaSign(msg, d, k)

SpecFrame == InitEC /\ [][NextFrame]_vars

(***************************************************************************)
(* The object machine: a Curve, a Point slot and a Signature, built, read  *)
(* and assigned to in any order.                                           *)
(***************************************************************************)
ObjSlots == {1}

\* values assigned to a curve field
FieldVals(attr) == IF attr = "p" THEN {7, 13} ELSE {-3, 5}

\* coordinates given to Point and assigned to x and y; r and s of Signature
Pairs == {<<-1, 2>>, <<2, -1>>}

NewPoint(i, x, y) ==
    /\ pts' = [pts EXCEPT ![i] = point(x, y, curve)]
    /\ built' = [built EXCEPT ![i] = Params(curve)]
    /\ ret' = PointRet(point(x, y, curve))
    /\ last' = [NoCall EXCEPT !.op = "Point", !.i = i]
    /\ nsteps' = nsteps + 1
    /\ UNCHANGED <<curve, sig>>

\* load of curve.G, bound to slot i
CurveLoadG(i) ==
    /\ pts' = [pts EXCEPT ![i] = new_point_init_copy(curve)]
    /\ built' = [built EXCEPT ![i] = Params(curve)]
    /\ ret' = PointRet(new_point_init_copy(curve))
    /\ last' = [NoCall EXCEPT !.op = "curve_load_G", !.i = i]
    /\ nsteps' = nsteps + 1
    /\ UNCHANGED <<curve, sig>>

CurveLoad(attr) ==
    LET r == curve_attr_load(curve, attr)
    IN  /\ curve' = r.curve
        /\ ret' = IntRet(r.val)
        /\ last' = [NoCall EXCEPT !.op = "curve_load", !.attr = attr]
        /\ nsteps' = nsteps + 1
        /\ UNCHANGED <<pts, sig, built>>

CurveStore(attr, v) ==
    /\ curve' = curve_attr_store(curve, attr, v)
    /\ ret' = NoRet
    /\ last' = [NoCall EXCEPT !.op = "curve_store", !.attr = attr, !.k = v]
    /\ nsteps' = nsteps + 1
    /\ UNCHANGED <<pts, sig, built>>

CurveStoreG(i) ==
    /\ pts[i].live
    /\ curve' = curve_attr_store_G(curve, pts[i])
    /\ ret' = NoRet
    /\ last' = [NoCall EXCEPT !.op = "curve_store_G", !.i = i]
    /\ nsteps' = nsteps + 1
    /\ UNCHANGED <<pts, sig, built>>

PointLoad(i, attr) ==
    LET r == point_attr_load(pts[i], attr)
    IN  /\ pts[i].live
        /\ pts' = [pts EXCEPT ![i] = r.pt]
        /\ ret' = IntRet(r.val)
        /\ last' = [NoCall EXCEPT !.op = "point_load", !.i = i, !.attr = attr]
        /\ nsteps' = nsteps + 1
        /\ UNCHANGED <<curve, sig, built>>

PointStore(i, attr, v) ==
    /\ pts[i].live
    /\ pts' = [pts EXCEPT ![i] = point_attr_store(pts[i], attr, v)]
    /\ ret' = NoRet
    /\ last' = [NoCall EXCEPT !.op = "point_store", !.i = i, !.attr = attr, !.k = v]
    /\ nsteps' = nsteps + 1
    /\ UNCHANGED <<curve, sig, built>>

\* load of point.curve: a new Curve object
PointLoadCurve(i) ==
    /\ pts[i].live
    /\ ret' = CurveRet(new_curve_init_copy(pts[i]))
    /\ last' = [NoCall EXCEPT !.op = "point_load_curve", !.i = i]
    /\ nsteps' = nsteps + 1
    /\ UNCHANGED <<curve, pts, sig, built>>

\* store of point.curve: the point takes the curve's fields as they now are
PointStoreCurve(i) ==
    /\ pts[i].live
    /\ pts' = [pts EXCEPT ![i] = point_attr_store_curve(pts[i], curve)]
    /\ built' = [built EXCEPT ![i] = Params(curve)]
    /\ ret' = NoRet
    /\ last' = [NoCall EXCEPT !.op = "point_store_curve", !.i = i]
    /\ nsteps' = nsteps + 1
    /\ UNCHANGED <<curve, sig>>

SignatureLoad(attr) ==
    LET r == signature_attr_load(sig, attr)
    IN  /\ sig.live
        /\ sig' = r.sg
        /\ ret' = IntRet(r.val)
        /\ last' = [NoCall EXCEPT !.op = "signature_load", !.attr = attr]
        /\ nsteps' = nsteps + 1
        /\ UNCHANGED <<curve, pts, built>>

Init ==
    /\ curve = Curve(11, -3, 10, 7, 2, 1, "c1")
    /\ pts = [i \in Slots |-> NoPoint]
    /\ built = [i \in Slots |-> Params(NoCurve)]
    /\ sig = NoSig
    /\ last = NoCall
    /\ ret = NoRet
    /\ nsteps = 0

Next ==
    /\ nsteps < MaxSteps
    /\ \/ \E i \in ObjSlots, xy \in Pairs : NewPoint(i, xy[1], xy[2])
       \/ \E i \in ObjSlots : CurveLoadG(i)
       \/ \E i \in ObjSlots : PointDouble(i, i)
       \/ \E attr \in IntFields : CurveLoad(attr)
       \/ \E attr \in IntFields : \E v \in FieldVals(attr) : CurveStore(attr, v)
       \/ \E i \in ObjSlots : CurveStoreG(i)
       \/ \E i \in ObjSlots, attr \in {"x", "y"} : PointLoad(i, attr)
       \/ \E i \in ObjSlots, attr \in {"x", "y"} : PointStore(i, attr, -1)
       \/ \E i \in ObjSlots : PointLoadCurve(i)
       \/ \E i \in ObjSlots : PointStoreCurve(i)
       \/ \E rs \in Pairs : SignatureNew(rs[1], rs[2])
       \/ \E attr \in {"r", "s"} : SignatureLoad(attr)

Spec == Init /\ [][Next]_vars

(***************************************************************************)
(* The operators, on two Points built from curves that differ in one       *)
(* field, a Curve, a Signature and an int.                                 *)
(***************************************************************************)
BaseCurve == Curve(11, -3, 10, 7, 2, 1, "c1")

\* the base curve, and the curves that differ from it in exactly one field
OpCurves ==
    { BaseCurve,
      [BaseCurve EXCEPT !.p = 13], [BaseCurve EXCEPT !.a = 1],
      [BaseCurve EXCEPT !.b = 6], [BaseCurve EXCEPT !.q = 13],
      [BaseCurve EXCEPT !.gx = 8], [BaseCurve EXCEPT !.gy = 10],
      [BaseCurve EXCEPT !.name = "c9"], [BaseCurve EXCEPT !.oid = <<1>>] }

OpCoords == { <<2, 1>>, <<8, 5>>, <<0, 0>> }

\* the Curve the caller holds: the base curve, or one with another b, with
\* b = 0, with b = p, or with another p
OpArgCurves ==
    { BaseCurve, [BaseCurve EXCEPT !.b = 6], [BaseCurve EXCEPT !.b = 0],
      [BaseCurve EXCEPT !.b = 11], [BaseCurve EXCEPT !.p = 13] }

InitOps ==
    /\ curve \in OpArgCurves
    /\ pts \in [Slots -> { point(xy[1], xy[2], cv) : xy \in OpCoords, cv \in OpCurves }]
    /\ built = [i \in Slots |-> Params(pts[i].c)]
    /\ sig = signature(3, 4)
    /\ last = NoCall
    /\ ret = NoRet
    /\ nsteps = 0

\* the right operands: either Point, the Curve read from the second Point,
\* the Signature, a small int, an int held as a heap object
Operands ==
    { PointObj(1), PointObj(2), CurveObj(new_curve_init_copy(pts[2])),
      SigObj(sig), SigObj(signature(3, 5)), IntObj(5), MpzObj(5) }

\* what a misread Curve, Signature or heap int operand may be read as: a
\* Point with the left operand's curve fields, or with other ones
PointGarbage(i) == { pts[i], [pts[i] EXCEPT !.c.p = pts[i].c.p + 2] }

SigGarbage == { sig, [sig EXCEPT !.r = sig.r + 1] }

OpRet(r) ==
    IF r.kind = "crash" THEN CrashRet
    ELSE IF r.err # "" THEN ErrRet(r.err)
    ELSE IF r.kind = "bool" THEN BoolRet(r.b)
    ELSE PointRet(r.pr)

PointBinaryOp(op, i, rhs, garbage) ==
    LET r == point_binary_op(op, pts, i, rhs, garbage)
    IN  /\ pts' = r.pts
        /\ ret' = OpRet(r)
        /\ last' = [NoCall EXCEPT !.op = "point_binary_op", !.attr = op, !.i = i,
                                  !.j = rhs.slot, !.k = rhs.n, !.rkind = rhs.kind,
                                  !.misread = r.misread]
        /\ nsteps' = nsteps + 1
        /\ UNCHANGED <<curve, sig, built>>

CurveBinaryOp(op, rhs) ==
    LET r == curve_binary_op(op, curve, rhs, pts)
    IN  /\ ret' = OpRet(r)
        /\ last' = [NoCall EXCEPT !.op = "curve_binary_op", !.attr = op,
                                  !.j = rhs.slot, !.rkind = rhs.kind,
                                  !.misread = r.misread]
        /\ nsteps' = nsteps + 1
        /\ UNCHANGED <<curve, pts, sig, built>>

SignatureBinaryOp(op, rhs, garbage) ==
    LET r == signature_binary_op(op, sig, rhs, garbage)
    IN  /\ ret' = IF r.kind = "crash" THEN CrashRet ELSE BoolRet(r.b)
        /\ last' = [NoCall EXCEPT !.op = "signature_binary_op", !.attr = op,
                                  !.rkind = rhs.kind, !.misread = r.misread]
        /\ nsteps' = nsteps + 1
        /\ UNCHANGED <<curve, pts, sig, built>>

\* what name and oid may be read as out of the digits of an integer
VstrGarbage == { [name |-> "", oid |-> <<>>], [name |-> "?", oid |-> <<0>>] }

\* -P for the Point in slot i
PointUnaryOp(i, garbage) ==
    LET r == point_unary_op(pts, i, garbage)
    IN  /\ pts' = r.pts
        /\ ret' = PointRet(r.pr)
        /\ last' = [NoCall EXCEPT !.op = "point_unary_op", !.attr = "-", !.i = i]
        /\ nsteps' = nsteps + 1
        /\ UNCHANGED <<curve, sig, built>>

PointInCurve(i) ==
    LET r == point_in_curve(pts, i, curve)
    IN  /\ pts' = r.pts
        /\ curve' = r.curve
        /\ ret' = BoolRet(r.b)
        /\ last' = [NoCall EXCEPT !.op = "point_in_curve", !.i = i]
        /\ nsteps' = nsteps + 1
        /\ UNCHANGED <<sig, built>>

NextOps ==
    /\ nsteps = 0
    /\ \/ \E op \in {"+", "-", "*", "=="}, i \in Slots, rhs \in Operands :
              \E garbage \in PointGarbage(i) : PointBinaryOp(op, i, rhs, garbage)
       \/ \E op \in {"==", "in"}, rhs \in Operands : CurveBinaryOp(op, rhs)
       \/ \E rhs \in Operands, garbage \in SigGarbage :
              SignatureBinaryOp("==", rhs, garbage)
       \/ \E i \in Slots, garbage \in VstrGarbage : PointUnaryOp(i, garbage)
       \/ \E i \in Slots : PointInCurve(i)

SpecOps == InitOps /\ [][NextOps]_vars

(***************************************************************************)
(* Construction of a Curve with an oid, and assignment to the fields of a  *)
(* Curve, with values of every kind.                                       *)
(***************************************************************************)
\* the characters '/', '0', '9', 'F', 'a', 'g'
OidChars == {47, 48, 57, 70, 97, 103}

RECURSIVE SeqsUpTo(_, _)
SeqsUpTo(S, n) ==
    IF n = 0 THEN {<<>>}
    ELSE LET shorter == SeqsUpTo(S, n - 1)
         IN  shorter \cup { Append(sq, x) : sq \in { t \in shorter : Len(t) = n - 1 }, x \in S }

OidValues ==
    { IntVal(5) } \cup { StrVal(d) : d \in SeqsUpTo(OidChars, MaxOidLen) }
                  \cup { BytesVal(d) : d \in SeqsUpTo(OidChars, MaxOidLen) }

\* what a fresh buffer may hold before it is written
OidFill == {0, 255}

StoreAttrs == IntFields \cup {"G", "name", "oid"}

InitOid ==
    /\ curve \in { [BaseCurve EXCEPT !.name = <<99, 49>>, !.oid = o] : o \in {<<>>, <<43, 6>>} }
    /\ pts = [i \in Slots |-> NoPoint]
    /\ built = [i \in Slots |-> Params(NoCurve)]
    /\ sig = NoSig
    /\ last = NoCall
    /\ ret = NoRet
    /\ nsteps = 0

\* Curve(p, a, b, q, gx, gy, oid=val)
CurveNew(val, fill) ==
    LET r == curve_oid_arg(val, fill)
    IN  /\ ret' = IF r.err # "" THEN ErrRet(r.err)
                  ELSE CurveRet([curve EXCEPT !.name = <<>>, !.oid = r.oid])
        /\ last' = [NoCall EXCEPT !.op = "curve", !.attr = "oid", !.val = val,
                                  !.before = curve]
        /\ nsteps' = nsteps + 1
        /\ UNCHANGED <<curve, pts, sig, built>>

\* curve.attr = val
CurveStoreObj(attr, val, fill) ==
    LET r == curve_attr_store_obj(curve, attr, val, fill)
    IN  /\ curve' = r.curve
        /\ ret' = IF r.err # "" THEN ErrRet(r.err) ELSE NoRet
        /\ last' = [NoCall EXCEPT !.op = "curve_store_obj", !.attr = attr,
                                  !.val = val, !.before = curve]
        /\ nsteps' = nsteps + 1
        /\ UNCHANGED <<pts, sig, built>>

NextOid ==
    /\ nsteps = 0
    /\ \/ \E val \in OidValues, fill \in OidFill : CurveNew(val, fill)
       \/ \E attr \in StoreAttrs, val \in OidValues, fill \in OidFill :
              CurveStoreObj(attr, val, fill)

SpecOid == InitOid /\ [][NextOid]_vars

(***************************************************************************)
(* Calls of the number-theory namespace.                                   *)
(***************************************************************************)
Invmod(a, b) ==
    /\ ret' = IntRet(mod_invmod(a, b))
    /\ last' = [NoCall EXCEPT !.op = "invmod", !.k = a, !.k2 = b]
    /\ nsteps' = nsteps + 1
    /\ UNCHANGED <<curve, pts, sig, built>>

FastPow(a, b, c) ==
    /\ ret' = IntRet(mod_fast_pow(a, b, c))
    /\ last' = [NoCall EXCEPT !.op = "fast_pow", !.k = a, !.k2 = b, !.m = c]
    /\ nsteps' = nsteps + 1
    /\ UNCHANGED <<curve, pts, sig, built>>

Exptmod(a, b, c, safe) ==
    LET r == mod_exptmod(a, b, c, safe)
    IN  /\ ret' = IF r.raised THEN ErrRet("ValueError") ELSE IntRet(r.val)
        /\ last' = [NoCall EXCEPT !.op = "exptmod", !.k = a, !.k2 = b, !.m = c,
                                  !.safe = safe]
        /\ nsteps' = nsteps + 1
        /\ UNCHANGED <<curve, pts, sig, built>>

\* bit lengths asked of generate_prime
PrimeBits == {0, MinPrimeBits - 1, MaxPrimeBits + 1} \cup MinPrimeBits..MaxGenBits

GeneratePrime(num, safe, outcome) ==
    LET r == mod_generate_prime(num, safe, outcome)
    IN  /\ ret' = IF r.raised THEN ErrRet("ValueError") ELSE IntRet(r.val)
        /\ last' = [NoCall EXCEPT !.op = "generate_prime", !.k = num, !.safe = safe,
                                  !.draws = r.draws, !.generated = r.generated,
                                  !.cand = outcome.val, !.candok = outcome.ok]
        /\ nsteps' = nsteps + 1
        /\ UNCHANGED <<curve, pts, sig, built>>

NextNum ==
    /\ nsteps = 0
    /\ \/ \E a \in 0..MaxNum, b \in 2..MaxNum : Invmod(a, b)
       \/ \E a \in 0..MaxPow, b \in 0..MaxPow, c \in 2..(MaxPow + 1) : FastPow(a, b, c)
       \/ \E a \in 0..MaxPow, b \in 0..MaxPow, c \in 2..(MaxPow + 1), safe \in BOOLEAN :
              Exptmod(a, b, c, safe)
       \/ \E num \in PrimeBits, safe \in BOOLEAN :
              \E outcome \in fp_prime_random_ex_outcomes(IF num < 2 THEN 2 ELSE
                                                          IF num > 30 THEN 30 ELSE num) :
                  GeneratePrime(num, safe, outcome)

SpecNum == Init /\ [][NextNum]_vars

(***************************************************************************)
(* fast_pow, one iteration of its loop at a time.  While the call runs,    *)
(* last holds the arguments (k, k2, m) and the locals x, e, y of fp_pow3.  *)
(***************************************************************************)
FastPowCall(a, b, c) ==
    /\ last.op = "init"
    /\ last' = [NoCall EXCEPT !.op = "fp_pow3", !.k = a, !.k2 = b, !.m = c,
                              !.x = mp_fp_for_int(a), !.e = mp_fp_for_int(b), !.y = 1]
    /\ nsteps' = nsteps + 1
    /\ UNCHANGED <<curve, pts, sig, built, ret>>

FastPowIter ==
    /\ last.op = "fp_pow3"
    /\ last.e > 0
    /\ LET n == fp_pow3_iter(last.x, last.e, last.y, mp_fp_for_int(last.m))
       IN  last' = [last EXCEPT !.x = n.x, !.e = n.e, !.y = n.y]
    /\ nsteps' = nsteps + 1
    /\ UNCHANGED <<curve, pts, sig, built, ret>>

FastPowReturn ==
    /\ last.op = "fp_pow3"
    /\ ~(last.e > 0)
    /\ ret' = IntRet(fp_int_as_int(last.y).val)
    /\ last' = [last EXCEPT !.op = "fast_pow"]
    /\ nsteps' = nsteps + 1
    /\ UNCHANGED <<curve, pts, sig, built>>

NextPow ==
    \/ \E a \in 0..MaxPow, b \in 0..MaxPow, c \in 1..(MaxPow + 1) : FastPowCall(a, b, c)
    \/ FastPowIter
    \/ FastPowReturn

SpecPow == Init /\ [][NextPow]_vars

\* the call is never left half-way
SpecPowLive == SpecPow /\ WF_vars(FastPowIter) /\ WF_vars(FastPowReturn)

(***************************************************************************)
(* The textbook group law, with the point at infinity as a value of its    *)
(* own, to say what the order of a point is.                               *)
(***************************************************************************)
RefInf == [inf |-> TRUE, x |-> 0, y |-> 0]

RefPt(x, y) == [inf |-> FALSE, x |-> x, y |-> y]

RefInv(a, p) == CHOOSE x \in 0..(p - 1) : (a * x) % p = 1

RefAdd(A, B, c) ==
    IF A.inf THEN B
    ELSE IF B.inf THEN A
    ELSE IF A.x = B.x /\ (A.y + B.y) % c.p = 0 THEN RefInf
    ELSE LET lambda == IF A.x = B.x
                       THEN ((3 * A.x * A.x + c.a) * RefInv((2 * A.y) % c.p, c.p)) % c.p
                       ELSE ((B.y - A.y) * RefInv((B.x - A.x) % c.p, c.p)) % c.p
             rx == (lambda * lambda - A.x - B.x) % c.p
         IN  RefPt(rx, (lambda * (A.x - rx) - A.y) % c.p)

RECURSIVE RefMul(_, _, _)
RefMul(n, A, c) == IF n = 0 THEN RefInf ELSE RefAdd(RefMul(n - 1, A, c), A, c)

\* the base point of c is a point of c of order exactly c.q
GeneratorHasOrderQ(c) ==
    /\ ec_point_in_curve([x |-> c.gx, y |-> c.gy], c)
    /\ RefMul(c.q, RefPt(c.gx, c.gy), c).inf
    /\ \A n \in 1..(c.q - 1) : ~RefMul(n, RefPt(c.gx, c.gy), c).inf

(***************************************************************************)
(* Properties of the group-law calls (SpecEC).                             *)
(***************************************************************************)
\* C2, as the specification states it: for points P, Q of one curve and
\* scalars k1, k2 >= 0, zero included, Shamir's trick returns the point that
\* adding scalar_mul(P, k1) and scalar_mul(Q, k2) returns.
C2_DualEqualsSumOfProducts ==
    last.op = "shamirs_trick" =>
        PointOf(ret.pt) =
            ec_point_add(ec_point_mul(PointOf(pts[1]), last.k, curve).rop,
                         ec_point_mul(PointOf(pts[2]), last.k2, curve).rop, curve)

\* C3, as the specification states it: scalar_mul(P, k) and scalar_mul(P, -k)
\* have the same x, and the y of one is the negation mod p of the other's,
\* for every k, 0 and +-2 included.
C3_MirrorOfNegatedScalar ==
    last.op = "point_mul" =>
        LET other == point_mul(pts, last.i, -last.k, curve).pr
        IN  /\ other.x = ret.pt.x
            /\ other.y = fp_mod(-ret.pt.y, curve.p)

\* C4: on a curve whose base point G has order q, scalar_mul(G, q) is the
\* point at infinity, the (0, 0) sentinel.
C4_OrderTimesGeneratorIsInfinity ==
    ( /\ last.op = "point_mul"
      /\ GeneratorHasOrderQ(curve)
      /\ PointOf(pts[last.i]) = [x |-> curve.gx, y |-> curve.gy]
      /\ last.k = curve.q )
    => ret.pt.x = 0 /\ ret.pt.y = 0

C4_Witness ==
    /\ last.op = "point_mul"
    /\ GeneratorHasOrderQ(curve)
    /\ PointOf(pts[last.i]) = [x |-> curve.gx, y |-> curve.gy]
    /\ last.k = curve.q
    /\ curve.q = 13
    /\ IsInfinity(ret.pt)

\* C5: the point at infinity is the identity of point_add: P + infinity = P,
\* infinity + P = P, infinity + infinity = infinity.
C5_InfinityIsIdentity ==
    last.op = "point_add" =>
        /\ IsInfinity(pts[last.j]) => PointOf(ret.pt) = PointOf(pts[last.i])
        /\ IsInfinity(pts[last.i]) => PointOf(ret.pt) = PointOf(pts[last.j])

C5_Witness ==
    /\ last.op = "point_add"
    /\ last.i # last.j
    /\ ~IsInfinity(pts[last.i])
    /\ IsInfinity(pts[last.j])
    /\ PointOf(ret.pt) = PointOf(pts[last.i])

(***************************************************************************)
(* Properties of the calls that negate an operand in place (SpecFrame).    *)
(***************************************************************************)
\* C8: point_sub, point_mul with k < 0 and ecdsa_sign with a negative nonce
\* return with every operand point's x and y, the curve's base point and the
\* scalar holding the values they had before the call.
C8_OperandsRestored ==
    [][ /\ last'.op = "point_sub" =>
              \A i \in Slots : PointOf(pts'[i]) = PointOf(pts[i])
        /\ (last'.op = "point_mul" /\ last'.k < 0) =>
              /\ \A i \in Slots : PointOf(pts'[i]) = PointOf(pts[i])
              /\ last'.kpost = last'.k
        /\ (last'.op = "ecdsa_sign" /\ last'.nonce < 0) =>
              /\ curve'.gx = curve.gx /\ curve'.gy = curve.gy
              /\ last'.kpost = last'.nonce /\ last'.dpost = last'.d ]_vars

C8_Witness ==
    /\ last.op = "point_sub"
    /\ last.i # last.j
    /\ pts[last.j].y # 0
    /\ ~IsInfinity(pts[last.i])
    /\ ~IsInfinity(ret.pt)

(***************************************************************************)
(* Properties of ECDSA (SpecECDSA).                                        *)
(***************************************************************************)
\* the state after sign, public key, verify of the signature just made
RoundTripDone ==
    /\ last.op = "ecdsa_verify"
    /\ last.i = 2
    /\ GeneratorHasOrderQ(curve)
    /\ fp_gcd(last.d, curve.q) = 1
    /\ fp_gcd(last.nonce, curve.q) = 1

\* C1, as the specification states it: with G of prime order q, for every
\* digest and every d, k coprime to q, verifying the signature that
\* ecdsa_sign made, against scalar_mul(G, d), returns true.
C1_RoundTrip == RoundTripDone => ret.b

\* C1, amended: the round trip returns true whenever the s of the signature
\* made is invertible mod q.
C1_RoundTripInvertibleS ==
    (RoundTripDone /\ fp_gcd(sig.s, curve.q) = 1) => ret.b

C1_Witness ==
    /\ RoundTripDone
    /\ fp_gcd(sig.s, curve.q) = 1
    /\ Len(last.msg) = 2
    /\ last.nonce > curve.q
    /\ last.d < 0
    /\ ret.b

\* C10, as the specification states it: ecdsa_sign with a nonce that has no
\* inverse mod q, and ecdsa_verify with an s that has no inverse mod q, fail
\* with an error rather than go on with 0 for the inverse.
C10_MissingInverseIsAnError ==
    /\ (last.op = "ecdsa_sign" /\ ~fp_invmod(last.nonce, curve.q).ok)
           => ret.kind = "error"
    /\ (last.op = "ecdsa_verify" /\ ~fp_invmod(sig.s, curve.q).ok)
           => ret.kind = "error"

(***************************************************************************)
(* Properties of the object machine (Spec).                                *)
(***************************************************************************)
\* C6: once a point is built from a curve (Point(x, y, C), C.G, or the result
\* of a point operation on C), whatever is assigned to the fields of C later
\* the point's copies of p, a, b, q, gx, gy are C's values at the time the
\* point was built.
C6_SnapshotIsolation ==
    \A i \in Slots : pts[i].live => Params(pts[i].c) = built[i]

C6_Witness ==
    /\ pts[1].live
    /\ last.op = "curve_store"
    /\ last.attr = "q"
    /\ curve.q # built[1].q
    /\ curve.p # built[1].p
    /\ Params(pts[1].c) = built[1]

\* C7, as the specification states it: a read of an integer field of a curve,
\* a point or a signature returns the stored value and leaves the object as
\* it was, also when the stored value is negative.
C7_ReadHasNoEffect ==
    [][ /\ last'.op = "curve_load" =>
              ret'.n = curve[last'.attr] /\ curve' = curve
        /\ last'.op = "point_load" =>
              ret'.n = pts[last'.i][last'.attr] /\ pts' = pts
        /\ last'.op = "signature_load" =>
              ret'.n = sig[last'.attr] /\ sig' = sig ]_vars

(***************************************************************************)
(* Properties of the number-theory calls (SpecNum).                        *)
(***************************************************************************)
\* C9, as the specification states it: invmod(a, b) fails with an arithmetic
\* error whenever gcd(a, b) # 1 and never returns an integer then.
C9_InvmodFailsWithoutInverse ==
    (last.op = "invmod" /\ fp_gcd(last.k, last.k2) # 1) => ret.kind = "error"

\* C11: for every odd modulus c > 1 and 0 <= a, b < c, exptmod(a, b, c)
\* returns the integer that fast_pow(a, b, c) returns.
C11_ExptmodEqualsFastPow ==
    ( /\ last.op = "exptmod"
      /\ last.m > 1 /\ last.m % 2 = 1
      /\ last.k < last.m /\ last.k2 < last.m )
    => ret.kind = "int" /\ ret.n = mod_fast_pow(last.k, last.k2, last.m)

C11_Witness ==
    /\ last.op = "exptmod"
    /\ last.m = 7 /\ last.k = 3 /\ last.k2 = 5
    /\ ~last.safe
    /\ ret.kind = "int" /\ ret.n = 5

\* C12: with an even modulus exptmod fails with a value error and returns
\* nothing when safe is false, and returns what fast_pow returns when safe is
\* true; with an odd modulus safe does not change the result.
C12_EvenModulusNeedsSafe ==
    last.op = "exptmod" =>
        /\ (last.m % 2 = 0 /\ ~last.safe) =>
               ret.kind = "error" /\ ret.err = "ValueError"
        /\ (last.m % 2 = 0 /\ last.safe) =>
               ret.kind = "int" /\ ret.n = mod_fast_pow(last.k, last.k2, last.m)
        /\ last.m % 2 = 1 =>
               /\ ret.kind = "int"
               /\ ret.n = mod_exptmod(last.k, last.k2, last.m, ~last.safe).val

C12_Witness ==
    /\ last.op = "exptmod"
    /\ last.m = 6 /\ last.k = 5 /\ last.k2 = 3
    /\ ~last.safe
    /\ ret.kind = "error"

\* C13: generate_prime fails with a value error for every bits < 16 and every
\* bits > 4096, before any random draw and before any candidate is generated;
\* for bits in [16, 4096] a value is returned only if its bit length is
\* bits, and the call fails with a value error otherwise.
C13_GeneratePrimeRange ==
    last.op = "generate_prime" =>
        /\ (last.k < 16 \/ last.k > 4096) =>
               /\ ret.kind = "error" /\ ret.err = "ValueError"
               /\ last.draws = 0 /\ ~last.generated
        /\ (last.k >= 16 /\ last.k <= 4096) =>
               /\ ret.kind = "int" => fp_count_bits(ret.n) = last.k
               /\ ret.kind # "int" => ret.kind = "error" /\ ret.err = "ValueError"
               /\ (~last.candok \/ fp_count_bits(last.cand) # last.k)
                      => ret.kind = "error"

C13_Witness ==
    /\ last.op = "generate_prime"
    /\ last.k = 15
    /\ ret.kind = "error"
    /\ last.draws = 0

(***************************************************************************)
(* Properties of the operators (SpecOps).                                  *)
(***************************************************************************)
\* C14: +, - and == on two points raise the mismatch (value) error if and
\* only if the two curve snapshots differ in one of p, a, b, q, gx, gy; a
\* difference in name or oid alone never raises; and when nothing is raised
\* the result is computed on the left operand's snapshot.
C14_MismatchIffParamsDiffer ==
    (last.op = "point_binary_op" /\ last.attr \in {"+", "-", "=="}
        /\ last.rkind = "point") =>
        LET l == pts[last.i]
            r == pts[last.j]
        IN  /\ (ret.kind = "error") <=> (Params(l.c) # Params(r.c))
            /\ ret.kind = "error" => ret.err = "ValueError"
            /\ (ret.kind = "point" /\ last.attr = "+") =>
                   /\ ret.pt.c = l.c
                   /\ PointOf(ret.pt) = ec_point_add(PointOf(l), PointOf(r), l.c)
            /\ (ret.kind = "point" /\ last.attr = "-") =>
                   /\ ret.pt.c = l.c
                   /\ ret.pt = point_sub(pts, last.i, last.j, l.c).pr
            /\ last.attr = "==" => ret.kind \in {"bool", "error"}
            /\ ret.kind = "bool" => ret.b = (PointOf(l) = PointOf(r))

C14_Witness ==
    /\ last.op = "point_binary_op" /\ last.rkind = "point"
    /\ last.attr = "+"
    /\ last.i = 1 /\ last.j = 2
    /\ pts[1].c.name # pts[2].c.name
    /\ PointOf(pts[1]) # PointOf(pts[2])
    /\ ret.kind = "point"
    /\ ret.pt.c.name = pts[1].c.name
    /\ ~IsInfinity(ret.pt)

\* C15, as the specification states it: the binary operators of points,
\* curves and signatures raise a type error whenever an operand is not of
\* the required kind, and no operand of the wrong kind is read as if it
\* were a point, a curve or a signature.
C15_WrongKindIsTypeError ==
    /\ (last.op = "point_binary_op" /\ last.attr \in {"+", "-", "=="}
           /\ last.rkind # "point") =>
           ret.kind = "error" /\ ret.err = "TypeError" /\ ~last.misread
    /\ (last.op = "curve_binary_op" /\ last.attr = "==" /\ last.rkind # "curve") =>
           ret.kind = "error" /\ ret.err = "TypeError" /\ ~last.misread
    /\ (last.op = "curve_binary_op" /\ last.attr = "in" /\ last.rkind # "point") =>
           ret.kind = "error" /\ ret.err = "TypeError" /\ ~last.misread
    /\ (last.op = "signature_binary_op" /\ last.rkind # "signature") =>
           ret.kind = "error" /\ ret.err = "TypeError" /\ ~last.misread

(***************************************************************************)
(* Properties of the oid and of assignment to curve fields (SpecOid).      *)
(***************************************************************************)
\* the byte sequence a string of hex digits encodes, by the table
RefHexVal(ch) ==
    IF ch \in 48..57 THEN ch - 48
    ELSE IF ch \in 65..70 THEN ch - 55
    ELSE ch - 87

RefUnhex(str) ==
    [j \in 1..(Len(str) \div 2) |-> 16 * RefHexVal(str[2 * j - 1]) + RefHexVal(str[2 * j])]

AllHex(str) == \A j \in 1..Len(str) : str[j] \in (48..57) \cup (65..70) \cup (97..102)

OidGiven == last.attr = "oid" /\ last.op \in {"curve", "curve_store_obj"}

\* the oid of the curve the call built or assigned to
OidAfter == IF last.op = "curve" THEN ret.cv.oid ELSE curve.oid

\* C16: an oid given as text of even length made of hex digits yields
\* exactly the bytes it encodes, two digits a byte, high nibble first, both
\* cases accepted; text of odd length and text with a non-hex digit fail
\* with a value error; an oid given as bytes is stored unchanged.
C16_OidHexDecoding ==
    OidGiven =>
        /\ (last.val.kind = "str" /\ Len(last.val.data) % 2 = 0 /\ AllHex(last.val.data)) =>
               /\ ret.kind # "error"
               /\ OidAfter = RefUnhex(last.val.data)
        /\ (last.val.kind = "str" /\ Len(last.val.data) % 2 = 1) =>
               ret.kind = "error" /\ ret.err = "ValueError"
        /\ (last.val.kind = "str" /\ ~AllHex(last.val.data)) =>
               ret.kind = "error" /\ ret.err = "ValueError"
        /\ last.val.kind = "bytes" =>
               ret.kind # "error" /\ OidAfter = last.val.data

\* the text "Fa09" assigned to oid gives the bytes FA 09
C16_Witness ==
    /\ last.op = "curve_store_obj" /\ last.attr = "oid"
    /\ last.val = StrVal(<<70, 97, 48, 57>>)
    /\ ret.kind = "none"
    /\ curve.oid = <<250, 9>>

\* C17, as the specification states it: an assignment to a curve field that
\* fails leaves every field of the curve, oid included, as it was.
C17_FailedStoreChangesNothing ==
    (last.op = "curve_store_obj" /\ ret.kind = "error") => curve = last.before

(***************************************************************************)
(* Properties of the signature made and of the digest (SpecECDSA).         *)
(***************************************************************************)
\* the curve the behaviour started with
SignCurveOf(name) == CHOOSE c \in SignCurves : c.name = name

\* k*G by the reference law; G has order q
RefNonceG(k, c) == RefMul(k % c.q, RefPt(c.gx, c.gy), c)

\* the digest of 4 bits a hex digit, cut to its leftmost bitlen(q) bits
RefLeftmostBits(msg, c) ==
    LET excess == 4 * Len(msg) - fp_count_bits(c.q)
    IN  IF excess > 0 THEN fp_read_radix(msg) \div (2 ^ excess) ELSE fp_read_radix(msg)

\* C18: for k coprime to q, ecdsa_sign returns r = x(k*G) mod q and
\* s = k^-1 * (e + d*r) mod q, e the truncated digest integer; r and s lie
\* in [0, q) for every d and k, negative d included.
C18_SignatureValues ==
    last.op = "ecdsa_sign" =>
        LET c == SignCurveOf(curve.name)
            e == RefLeftmostBits(last.msg, c)
        IN  /\ sig.r \in 0..(c.q - 1)
            /\ sig.s \in 0..(c.q - 1)
            /\ fp_gcd(last.nonce, c.q) = 1 =>
                   /\ sig.r = RefNonceG(last.nonce, c).x % c.q
                   /\ sig.s = (RefInv(last.nonce % c.q, c.q) * (e + last.d * sig.r)) % c.q

\* a negative d, a nonce above q, and x(k*G) above q so that r is reduced
C18_Witness ==
    /\ last.op = "ecdsa_sign"
    /\ last.d < 0
    /\ last.nonce > curve.q
    /\ fp_gcd(last.nonce, curve.q) = 1
    /\ RefNonceG(last.nonce, SignCurveOf(curve.name)).x >= curve.q
    /\ sig.r > 0
    /\ sig.s > 0

\* the digest cut by the bit length of its value: shifted only if
\* bitlen(e) > bitlen(q), then by bitlen(e) - bitlen(q)
RefShiftByValueBits(msg, c) ==
    LET e == fp_read_radix(msg)
        excess == fp_count_bits(e) - fp_count_bits(c.q)
    IN  IF excess > 0 THEN e \div (2 ^ excess) ELSE e

DigestUsed == last.op \in {"ecdsa_sign", "ecdsa_verify"}

\* C19, as the specification states it: e is shifted right only when the
\* bit length of e exceeds that of q, and then by bitlen(e) - bitlen(q), so
\* that a digest with leading zero digits whose value fits is not shifted;
\* ecdsa_sign and ecdsa_verify derive the same e.
C19_ShiftByBitLengthOfE ==
    DigestUsed =>
        /\ ecdsa_s_digest(last.msg, curve) = RefShiftByValueBits(last.msg, curve)
        /\ ecdsa_v_digest(last.msg, curve) = ecdsa_s_digest(last.msg, curve)

\* C19, amended: e is shifted right when the digest's length in bits, four
\* a hex digit with leading zero digits counted, exceeds the bit length of
\* q, and then by exactly that excess; ecdsa_sign and ecdsa_verify derive
\* the same e.
C19_ShiftByDigestLength ==
    DigestUsed =>
        /\ ecdsa_s_digest(last.msg, curve) = RefLeftmostBits(last.msg, curve)
        /\ ecdsa_v_digest(last.msg, curve) = ecdsa_s_digest(last.msg, curve)

\* a digest with a leading zero digit whose value fits in bitlen(q) bits,
\* signed: its e is shifted all the same
C19_Witness ==
    /\ last.op = "ecdsa_sign"
    /\ Len(last.msg) = 2
    /\ last.msg[1] = "0"
    /\ fp_read_radix(last.msg) > 0
    /\ fp_count_bits(fp_read_radix(last.msg)) <= fp_count_bits(curve.q)
    /\ ecdsa_s_digest(last.msg, curve) = 0

\* C20, as the specification states it: ecdsa_verify returns false for
\* every signature whose s has no inverse mod q or whose r is 0 mod q,
\* whatever the digest, the public key and the curve; the signature (0, 0)
\* is never accepted.
C20_DegenerateSignatureRejected ==
    (last.op = "ecdsa_verify" /\ (fp_gcd(sig.s, curve.q) # 1 \/ sig.r % curve.q = 0))
        => ~ret.b

\* the signature (0, 0) is accepted
C20_ZeroSignatureAccepted ==
    /\ last.op = "ecdsa_verify"
    /\ sig.r = 0 /\ sig.s = 0
    /\ ret.b

\* a signature with r = 0 and an invertible s is accepted
C20_ZeroRAccepted ==
    /\ last.op = "ecdsa_verify"
    /\ sig.r = 0 /\ fp_gcd(sig.s, curve.q) = 1
    /\ ret.b

(***************************************************************************)
(* Properties of the group operations, second part (SpecEC).               *)
(***************************************************************************)
\* P added to itself k times by ec_point_add, from the point at infinity
RECURSIVE RepeatedAdd(_, _, _)
RepeatedAdd(P, k, c) ==
    IF k = 0 THEN Infinity ELSE ec_point_add(RepeatedAdd(P, k - 1, c), P, c)

\* C21, as the specification states it: for a point P of the curve that is
\* not infinity and every k >= 0, scalar_mul(P, k) is the k-fold repeated
\* point_add of P: infinity for 0, P for 1, double(P) for 2, and
\* add(scalar_mul(P, k), P) for k + 1.
C21_MulIsRepeatedAdd ==
    (last.op = "point_mul" /\ last.k >= 0 /\ ~IsInfinity(pts[last.i])) =>
        /\ PointOf(ret.pt) = RepeatedAdd(PointOf(pts[last.i]), last.k, curve)
        /\ last.k = 0 => IsInfinity(ret.pt)
        /\ last.k = 1 => PointOf(ret.pt) = PointOf(pts[last.i])
        /\ last.k = 2 => PointOf(ret.pt) = ec_point_double(PointOf(pts[last.i]), curve)

\* the same for k >= 1 only
C21_MulIsRepeatedAddFromOne ==
    (last.op = "point_mul" /\ last.k >= 1 /\ ~IsInfinity(pts[last.i])) =>
        PointOf(ret.pt) = RepeatedAdd(PointOf(pts[last.i]), last.k, curve)

\* C22, as the specification states it: point_sub(P1, P2, curve) is
\* point_add(P1, N, curve) with N = (P2.x, -P2.y mod p), also when P1 and P2
\* are one and the same object; P - P is the point at infinity.
C22_SubIsAddOfNegation ==
    last.op = "point_sub" =>
        LET P1 == PointOf(pts[last.i])
            P2 == PointOf(pts[last.j])
            N == [x |-> P2.x, y |-> fp_mod(-P2.y, curve.p)]
        IN  /\ PointOf(ret.pt) = ec_point_add(P1, N, curve)
            /\ P1 = P2 => IsInfinity(ret.pt)

\* the same for two distinct objects
C22_SubOfDistinctObjects ==
    (last.op = "point_sub" /\ last.i # last.j) =>
        LET P1 == PointOf(pts[last.i])
            P2 == PointOf(pts[last.j])
            N == [x |-> P2.x, y |-> fp_mod(-P2.y, curve.p)]
        IN  /\ PointOf(ret.pt) = ec_point_add(P1, N, curve)
            /\ P1 = P2 => IsInfinity(ret.pt)

(***************************************************************************)
(* Properties of the operators, second part (SpecOps).                     *)
(***************************************************************************)
\* C23, as the specification states it: -P is a new point with x = P.x,
\* y = -P.y mod p and the curve snapshot (p, a, b, q, gx, gy) of P, and P is
\* left as it was.
C23_NegationOfPoint ==
    [][ last'.op = "point_unary_op" =>
            LET P == pts[last'.i]
            IN  /\ ret'.pt.x = P.x
                /\ ret'.pt.y = fp_mod(-P.y, P.c.p)
                /\ Params(ret'.pt.c) = Params(P.c)
                /\ pts' = pts ]_vars

\* the part of C23 that holds: P is left as it was
C23_OperandUnchanged == [][ last'.op = "point_unary_op" => pts' = pts ]_vars

(***************************************************************************)
(* Properties of point_add and point_double on coordinates given inside or *)
(* outside [0, p) (SpecRaw), and closure (SpecEC).                         *)
(***************************************************************************)
\* the chord through A and B, x of A and B different mod p
RefChord(A, B, c) ==
    LET L == ((B.y - A.y) * RefInv((B.x - A.x) % c.p, c.p)) % c.p
        rx == (L * L - A.x - B.x) % c.p
    IN  [x |-> rx, y |-> (L * (A.x - rx) - A.y) % c.p]

\* the tangent at A, 2 * A.y invertible mod p
RefTangent(A, c) ==
    LET L == ((3 * A.x * A.x + c.a) * RefInv((2 * A.y) % c.p, c.p)) % c.p
        rx == (L * L - 2 * A.x) % c.p
    IN  [x |-> rx, y |-> (L * (A.x - rx) - A.y) % c.p]

AddOfTwoPoints ==
    /\ last.op = "point_add"
    /\ ~IsInfinity(pts[last.i])
    /\ ~IsInfinity(pts[last.j])

\* C24, as the specification states it: add(P, Q) of two points that are not
\* infinity is infinity when P.x = Q.x and P.y is congruent to -Q.y mod p,
\* also with a coordinate given outside [0, p); is the chord formula when
\* P.x and Q.x differ mod p; and add(P, P) is double(P).
C24_AddCases ==
    AddOfTwoPoints =>
        LET P == PointOf(pts[last.i])
            Q == PointOf(pts[last.j])
        IN  /\ (P.x = Q.x /\ (P.y + Q.y) % curve.p = 0) => IsInfinity(ret.pt)
            /\ (P.x - Q.x) % curve.p # 0 => PointOf(ret.pt) = RefChord(P, Q, curve)
            /\ P = Q => PointOf(ret.pt) = ec_point_double(P, curve)

\* the same with every coordinate in [0, p)
C24_AddCasesInRange ==
    ( /\ AddOfTwoPoints
      /\ \A i \in Slots : pts[i].x \in 0..(curve.p - 1) /\ pts[i].y \in 0..(curve.p - 1) )
    => LET P == PointOf(pts[last.i])
           Q == PointOf(pts[last.j])
       IN  /\ (P.x = Q.x /\ (P.y + Q.y) % curve.p = 0) => IsInfinity(ret.pt)
           /\ (P.x - Q.x) % curve.p # 0 => PointOf(ret.pt) = RefChord(P, Q, curve)
           /\ P = Q => PointOf(ret.pt) = ec_point_double(P, curve)

\* C25: double(P) is infinity when P is infinity and when 2 * P.y has no
\* inverse mod p (P.y = 0 among them); otherwise it is the tangent formula
\* with L = (3 * P.x^2 + a) / (2 * P.y) mod p, both coordinates in [0, p).
C25_DoubleCases ==
    last.op = "point_double" =>
        LET P == PointOf(pts[last.i])
        IN  /\ IsInfinity(P) => IsInfinity(ret.pt)
            /\ fp_gcd(2 * P.y, curve.p) # 1 => IsInfinity(ret.pt)
            /\ (~IsInfinity(P) /\ fp_gcd(2 * P.y, curve.p) = 1) =>
                   /\ PointOf(ret.pt) = RefTangent(P, curve)
                   /\ ret.pt.x \in 0..(curve.p - 1)
                   /\ ret.pt.y \in 0..(curve.p - 1)

\* a point given with a negative y, on a curve with a # 0, doubled
C25_Witness ==
    /\ last.op = "point_double"
    /\ pts[last.i].y < 0
    /\ curve.a # 0
    /\ ~IsInfinity(ret.pt)
    /\ PointOf(ret.pt) = RefTangent(PointOf(pts[last.i]), curve)

OnCurveOrSentinel(pt, c) ==
    \/ pt.x = 0 /\ pt.y = 0
    \/ /\ pt.x \in 0..(c.p - 1)
       /\ pt.y \in 0..(c.p - 1)
       /\ (pt.y * pt.y - (pt.x * pt.x * pt.x + c.a * pt.x + c.b)) % c.p = 0

IsPrime(n) == n > 1 /\ \A d \in 2..(n - 1) : n % d # 0

\* C26: with p prime and b not 0 mod p, when every input point is the
\* sentinel or a point of the curve with coordinates in [0, p), the result
\* of point_double, point_add, point_sub and point_mul, any scalar, is the
\* sentinel or a point of the curve with coordinates in [0, p).
C26_Closure ==
    ( /\ last.op \in {"point_double", "point_add", "point_sub", "point_mul"}
      /\ IsPrime(curve.p) /\ curve.b % curve.p # 0
      /\ \A i \in Slots : OnCurveOrSentinel(pts[i], curve) )
    => OnCurveOrSentinel(ret.pt, curve)

\* a negative scalar takes a point of the curve to one that is not the
\* sentinel
C26_Witness ==
    /\ last.op = "point_mul"
    /\ last.k < -2
    /\ IsPrime(curve.p) /\ curve.b % curve.p # 0
    /\ \A i \in Slots : OnCurveOrSentinel(pts[i], curve)
    /\ ~IsInfinity(pts[last.i])
    /\ ~IsInfinity(ret.pt)
    /\ OnCurveOrSentinel(ret.pt, curve)

(***************************************************************************)
(* The ladder of ec_point_mul, counted (SpecEC).                           *)
(***************************************************************************)
LadderRun == [iters |-> last.iters, adds |-> last.adds, doubles |-> last.doubles]

\* point_mul of a point that is not infinity by a scalar with |k| # 2
MulOnLadder ==
    /\ last.op = "point_mul"
    /\ ~IsInfinity(pts[last.i])
    /\ Abs(last.k) # 2

\* every other scalar of the same bit length costs the same calls
SameCallsForSameBits ==
    \A k2 \in Scalars :
        (Abs(k2) # 2 /\ fp_count_bits(k2) = fp_count_bits(last.k)) =>
            ec_point_mul_calls(PointOf(pts[last.i]), k2, curve) = LadderRun

\* C27, as the specification states it: for a point that is not infinity
\* and a scalar with |k| # 2 the ladder runs exactly bitlen(|k|) - 1
\* iterations after one initial double, each with exactly one add and one
\* double whatever the bit, so scalars of the same bit length cause the same
\* number of add calls and of double calls.
C27_UniformLadder ==
    MulOnLadder =>
        /\ last.iters = fp_count_bits(last.k) - 1
        /\ last.adds = last.iters
        /\ last.doubles = 1 + last.iters
        /\ SameCallsForSameBits

\* C27, amended: the same for k # 0; for k = 0 the loop runs no iteration
\* after the initial double.
C27_UniformLadderNonZero ==
    MulOnLadder =>
        /\ last.k # 0 => last.iters = fp_count_bits(last.k) - 1
        /\ last.k = 0 => last.iters = 0
        /\ last.adds = last.iters
        /\ last.doubles = 1 + last.iters
        /\ SameCallsForSameBits

\* two scalars of four bits with different bits, one of them negative
C27_Witness ==
    /\ MulOnLadder
    /\ last.k = -9
    /\ last.iters = 3 /\ last.adds = 3 /\ last.doubles = 4
    /\ ec_point_mul_calls(PointOf(pts[last.i]), 15, curve) = LadderRun

(***************************************************************************)
(* Properties of fast_pow (SpecPow).                                       *)
(***************************************************************************)
\* a^b mod c by b multiplications, each reduced
RECURSIVE RefPowMod(_, _, _)
RefPowMod(a, b, c) == IF b = 0 THEN 1 % c ELSE (a * RefPowMod(a, b - 1, c)) % c

\* C28, as the specification states it, the values: throughout the loop
\* y * x^e is congruent to a^b mod c, and the value returned is a^b mod c for
\* every a >= 0, b >= 0 and c >= 1, b = 0 and c = 1 included.
C28_FastPowValue ==
    /\ last.op = "fp_pow3" =>
           (last.y * RefPowMod(last.x, last.e, last.m)) % last.m
               = RefPowMod(last.k, last.k2, last.m)
    /\ last.op = "fast_pow" => ret.n = RefPowMod(last.k, last.k2, last.m)

\* the same, the returned value stated only for b > 0 or c > 1
C28_FastPowValueButZeroModOne ==
    /\ last.op = "fp_pow3" =>
           (last.y * RefPowMod(last.x, last.e, last.m)) % last.m
               = RefPowMod(last.k, last.k2, last.m)
    /\ (last.op = "fast_pow" /\ (last.k2 > 0 \/ last.m > 1)) =>
           ret.n = RefPowMod(last.k, last.k2, last.m)

\* the step-by-step run returns what mod_fast_pow returns
C28_RunIsFastPow ==
    last.op = "fast_pow" => ret.n = mod_fast_pow(last.k, last.k2, last.m)

\* e strictly decreases in every iteration and the loop is left with e = 0
C28_ExponentDecreases ==
    [][ /\ (last.op = "fp_pow3" /\ last'.op = "fp_pow3") =>
              last'.e < last.e /\ last'.e >= 0
        /\ (last.op = "fp_pow3" /\ last'.op = "fast_pow") => last.e = 0 ]_vars

\* every call returns
C28_Terminates == (last.op = "fp_pow3") ~> (last.op = "fast_pow")

(***************************************************************************)
(* Properties of assignment to curve fields, second part (Spec, SpecOid).  *)
(***************************************************************************)
CurveFields == IntFields \cup {"name", "oid"}

\* C29, as the specification states it: an assignment to one of p, a, b, q,
\* gx, gy changes that field only, and an assignment to G changes only gx
\* and gy; every other field of the curve keeps its value.
C29_StoreChangesOwnFieldOnly ==
    [][ /\ last'.op = "curve_store" =>
              \A f \in CurveFields \ {last'.attr} : curve'[f] = curve[f]
        /\ last'.op = "curve_store_G" =>
              \A f \in CurveFields \ {"gx", "gy"} : curve'[f] = curve[f] ]_vars

\* the same for the integer fields alone
C29_IntStoreChangesOwnFieldOnly ==
    [][ last'.op = "curve_store" =>
            \A f \in CurveFields \ {last'.attr} : curve'[f] = curve[f] ]_vars

\* the same for assignments of any value to any field but G that succeed
\* (SpecOid)
C29_ObjStoreChangesOwnFieldOnly ==
    (last.op = "curve_store_obj" /\ ret.kind # "error") =>
        \A f \in CurveFields \ {last.attr} : curve[f] = last.before[f]

(***************************************************************************)
(* Properties of point_in_curve (SpecOps).                                 *)
(***************************************************************************)
\* C30: point_in_curve(point, curve) is true exactly when
\* y^2 - (x^3 + a*x + b) is 0 mod p for the a, b, p of the curve given, not
\* of the point's own snapshot; for the sentinel (0, 0) it is true if and
\* only if b is 0 mod p; the point and the curve are left as they were.
C30_PointInCurve ==
    [][ last'.op = "point_in_curve" =>
            LET P == pts[last'.i]
                residue == P.y * P.y - (P.x * P.x * P.x + curve.a * P.x + curve.b)
            IN  /\ ret'.b = (residue % curve.p = 0)
                /\ IsInfinity(P) => (ret'.b <=> curve.b % curve.p = 0)
                /\ pts' = pts
                /\ curve' = curve ]_vars

\* a point of its own snapshot's curve, asked about a curve with another b
C30_Witness ==
    /\ last.op = "point_in_curve"
    /\ ~IsInfinity(pts[last.i])
    /\ ec_point_in_curve(PointOf(pts[last.i]), new_curve_init_copy(pts[last.i]))
    /\ pts[last.i].c.b # curve.b
    /\ ret.kind = "bool" /\ ~ret.b

\* the sentinel asked about a curve with b = p
C30_SentinelWitness ==
    /\ last.op = "point_in_curve"
    /\ IsInfinity(pts[last.i])
    /\ curve.b = curve.p
    /\ ret.b

====
